---- MODULE Spec2Model ----
(***************************************************************************)
(* Job orchestration and tool-calling agent of forceclaw-api:              *)
(*   - Slack event ingestion, org resolution and job creation              *)
(*     (src/routes/slackWebhooks.ts)                                       *)
(*   - the BullMQ dispatch queue (src/queue/index.ts)                      *)
(*   - the worker, in its two snapshots (src/workers/agentWorker.ts and    *)
(*     the later one that calls runAgentLoop)                              *)
(*   - the job control actions respond / retry (src/routes/jobs.ts)        *)
(*   - disconnecting an org (src/routes/orgs.ts)                           *)
(*   - the agent loop (runAgentLoop) and the tool executor                 *)
(*     (src/agent/tools.ts)                                                *)
(***************************************************************************)
EXTENDS Integers, Sequences, FiniteSets, TLC

\* ------------------------------------------------------------------ bounds
MaxJobs    == 2      \* job records ever created
MaxLedgerJobs == 1   \* job records created where disconnects and job
                     \* control actions interleave with the worker
MaxThreadJobs == 3   \* job records of one thread where the resolver is
                     \* run against the thread's history
MaxEvents  == 1      \* distinct Slack event ids
MaxThreads == 1      \* distinct Slack threads
MaxClears  == 1      \* firings of the processedEvents.clear() interval
MaxTicks   == 2      \* clock advances in a cache run
NumWorkers == 1      \* worker slots modelled (the source runs 5, later 3)
PoolSize   == 2      \* worker slots where runs of the agent loop overlap
MaxToolTurns == 2    \* tool-invocation turns of one run where runs overlap
MaxUpdates == 2      \* successful writes to one component

\* ------------------------------------------------------- program constants
Attempts   == 3      \* defaultJobOptions.attempts
BackoffMs  == 5000   \* defaultJobOptions.backoff.delay
MAX_TURNS  == 10     \* agent loop turn cap
DefaultLimit == 200  \* the LIMIT executeQuery appends
MaxLimit   == 2000   \* the greatest LIMIT executeQuery lets through
COMPONENT_TTL    == 3600   \* seconds, component cache
TTL_apex_classes == 21600  \* seconds, inventory cache, key apex_classes

\* ---------------------------------------------------------------- domains
JobIds   == 1..MaxThreadJobs
EventIds == 1..MaxEvents
Threads  == 1..MaxThreads
Workers  == 1..NumWorkers
Slots    == 1..PoolSize

OrgIds == {"prodOrg", "sbxOrg", "devOrg"}
OrgType(o) == IF o = "prodOrg" THEN "production"
              ELSE IF o = "sbxOrg" THEN "sandbox" ELSE "developer"
\* whether the org row carries sfConsumerKey / sfConsumerSecret / sfLoginUrl
HasClientCredentials(o) == o = "sbxOrg"

NoJob   == [status |-> "none"]

JobStatuses == {"queued", "running", "waiting_for_input", "paused",
                "completed", "failed"}

\* A message, reduced to what the resolver reads from it: the orgs whose
\* name it matches (full name or a significant token), and whether it holds
\* a development keyword or a read/report keyword.
Messages ==
  [names : SUBSET OrgIds, dev : BOOLEAN, prod : BOOLEAN]

PlainMsg == [names |-> {}, dev |-> FALSE, prod |-> FALSE]

\* The ForceClaw users a Slack user resolves to.
Users == {"u1", "u2"}

\* The distinct event contents: every message of every user, and one
\* event that handleEventAsync drops.
NumContents == 33

VARIABLES
  orgs,             \* OrgIds -> "valid" | "gone"   (Org rows)
  jobs,             \* JobIds -> Job row, or NoJob
  logs,             \* JobIds -> number of JobLog rows
  artifacts,        \* JobIds -> number of JobArtifact rows
  nextId,           \* next job id handed out by prisma.job.create
  queue,            \* the BullMQ queue "agent-jobs": a set of entries
  processedEvents,  \* the in-memory de-duplication set
  clears,           \* how often the set was cleared so far
  pending,          \* acknowledged events whose continuation has not run
  pickers,          \* org choosers posted
  workers,          \* Workers -> state of the worker slot
  disc,             \* the DELETE /api/orgs/:orgId request in progress
  resp,             \* the response or thread notice a request handler has
                    \* just sent, until the request is over
  call,             \* the arguments of the last executeTool call
  result,           \* the ToolResult it returned
  remote,           \* the remote operations it issued, in order
  offered,          \* the tools getToolsForOrg returned for the org type
  sent,             \* the SOQL text passed to conn.query, <<>> when none
  cache,            \* cache key -> row of org_metadata_cache or
                    \* org_component_cache of one org, or NoEntry
  now,              \* Date.now(), in milliseconds
  ticks             \* how often the clock has advanced

vars == <<orgs, jobs, logs, artifacts, nextId, queue,
          processedEvents, clears, pending, pickers, workers, disc, resp,
          call, result, remote, offered, sent, cache, now, ticks>>

ledgerVars == <<orgs, jobs, logs, artifacts, nextId, queue,
                processedEvents, clears, pending, pickers, workers, disc,
                resp>>

toolVars == <<call, result, remote, offered, sent, cache, now, ticks>>

cacheVars == <<cache, now, ticks>>

dbVars == <<orgs, jobs, logs, artifacts>>

\* ---------------------------------------------------------------- helpers
Exists(j) == jobs[j] # NoJob

ValidOrgs == {o \in OrgIds : orgs[o] = "valid"}

Max(S) == CHOOSE x \in S : \A y \in S : y <= x

NoResp == [op |-> "none", target |-> 0, code |-> 0]

\* res.status(code) of operation op on target t
Response(op, t, code) == [op |-> op, target |-> t, code |-> code]

\* No response is on its way: the next step of any handler may be observed.
Ready == resp = NoResp

\* prisma.jobLog.create: the JobLog -> Job relation makes the insert fail
\* when the job row is gone.
LogToJob(l, j) == [l EXCEPT ![j] = @ + 1]

\* slackService.postThreadReply(..., text) by the handler running in a
\* worker slot; posted holds the kinds of text the current run has sent,
\* tried tells that the run has called postThreadReply at all.
PostReply(ws, kind) == [ws EXCEPT !.posted = @ \cup {kind}, !.tried = TRUE]

\* A call of postThreadReply that throws.
TryReply(ws) == [ws EXCEPT !.tried = TRUE]

\* queue.add(name, payload, {jobId}): BullMQ ignores an add whose jobId is
\* already present in the queue.
QueueAdd(q, j, o, t) ==
  IF \E e \in q : e.jobId = j
  THEN q
  ELSE q \cup {[jobId |-> j, orgId |-> o, thread |-> t,
                state |-> "waiting", attemptsMade |-> 0, delay |-> 0]}

\* exponential backoff before attempt number n+1
BackoffDelay(n) == BackoffMs * (2 ^ (n - 1))

Entry(j) == CHOOSE e \in queue : e.jobId = j

\* A worker slot: entry is the payload's job id, jobId the job the agent
\* loop works on, turn its turnCount, stop the last stop_reason, hist the
\* length of conversationHistory, posted the replies sent to the thread.
IdleWorker == [pc |-> "idle", entry |-> 0, jobId |-> 0, turn |-> 0,
               stop |-> "none", hist |-> 0, posted |-> {}, tried |-> FALSE,
               calls |-> <<>>]

IdleDisc == [pc |-> "idle", org |-> "none"]

NoCall == [name |-> "none"]

\* The continuation of an event carries no button value.
NoClick == [orgId |-> "none", userId |-> "none", messageText |-> PlainMsg,
            thread |-> 0]

\* The cache rows of one org: the inventory key apex_classes and the
\* component keys of one class and one trigger.
CacheKeys == {"apex_classes", "apex_class:A", "apex_trigger:A"}

NoEntry == [fetchedAt |-> 0, ttl |-> 0]

\* No call of executeTool has ended yet. kind tells how a call ended: with
\* a returned ToolResult or with an exception reaching the caller.
NoResult == [kind |-> "none", isError |-> FALSE, content |-> "none",
             invalidated |-> FALSE, ops |-> <<>>]

\* ------------------------------------------------------------------- Init
\* The account has one or two orgs connected; nothing has happened yet.
InitLedger ==
  /\ orgs \in [OrgIds -> {"valid", "gone"}]
  /\ ValidOrgs # {}
  /\ orgs["devOrg"] = "gone"
  /\ jobs = [j \in JobIds |-> NoJob]
  /\ logs = [j \in JobIds |-> 0]
  /\ artifacts = [j \in JobIds |-> 0]
  /\ nextId = 1
  /\ queue = {}
  /\ processedEvents = {}
  /\ clears = 0
  /\ pending = {}
  /\ pickers = {}
  /\ workers = [w \in Slots |-> IdleWorker]
  /\ disc = IdleDisc
  /\ resp = NoResp

\* No tool has been called.
Init ==
  /\ InitLedger
  /\ call = NoCall
  /\ result = NoResult
  /\ remote = <<>>
  /\ offered = {}
  /\ sent = <<>>
  /\ cache = [k \in CacheKeys |-> NoEntry]
  /\ now = 0
  /\ ticks = 0

\* ============================================================== ingestion
\* The Slack event with id e; every delivery of one id carries the same
\* content.  kind "ignored" stands for every event handleEventAsync drops
\* before resolving an org (not a mention or DM, a bot message, an unknown
\* workspace or user, an empty text).
EventContent(e) ==
  LET i == e - 1 IN
  [thread |-> (i % MaxThreads) + 1,
   kind   |-> IF i >= 32 THEN "ignored" ELSE "message",
   user   |-> IF (i \div 16) % 2 = 0 THEN "u1" ELSE "u2",
   msg    |-> [names |-> CASE i % 4 = 0 -> {}
                           [] i % 4 = 1 -> {"sbxOrg"}
                           [] i % 4 = 2 -> {"prodOrg"}
                           [] OTHER     -> {"prodOrg", "sbxOrg"},
               dev   |-> (i \div 4) % 2 = 1,
               prod  |-> (i \div 8) % 2 = 1]]

ThreadJobs(t) == {j \in JobIds : Exists(j) /\ jobs[j].thread = t}

\* Variant: the oldest job of the thread.
LatestThreadJob_Oldest(t) ==
  CHOOSE j \in ThreadJobs(t) : \A k \in ThreadJobs(t) : j <= k

\* findFirst({slackThreadTs}, orderBy createdAt desc): ids grow with
\* creation time.
LatestThreadJob(t) == Max(ThreadJobs(t))

PickJob(o) == [kind |-> "job", org |-> o]
PickChooser == [kind |-> "picker", org |-> "none"]

\* Variant: when nothing resolves the org, no chooser is posted.
ResolveOrg_NoChooser(valid, t, msg) ==
  IF valid = {} THEN [kind |-> "noOrg", org |-> "none"]
  ELSE IF Cardinality(valid) = 1 THEN PickJob(CHOOSE o \in valid : TRUE)
  ELSE IF ThreadJobs(t) # {} THEN PickJob(jobs[LatestThreadJob(t)].orgId)
  ELSE
    LET matchedOrgs == msg.names \cap valid
    IN IF Cardinality(matchedOrgs) = 1
         THEN PickJob(CHOOSE o \in matchedOrgs : TRUE)
       ELSE [kind |-> "noOrg", org |-> "none"]

\* Variant: several name matches fall through to intent inference.
ResolveOrg_IntentOnManyMatches(valid, t, msg) ==
  IF valid = {} THEN [kind |-> "noOrg", org |-> "none"]
  ELSE IF Cardinality(valid) = 1 THEN PickJob(CHOOSE o \in valid : TRUE)
  ELSE IF ThreadJobs(t) # {} THEN PickJob(jobs[LatestThreadJob(t)].orgId)
  ELSE
    LET matchedOrgs == msg.names \cap valid
        devOrgs  == {o \in valid : OrgType(o) \in {"sandbox", "developer"}}
        prodOrgs == {o \in valid : OrgType(o) = "production"}
    IN IF Cardinality(matchedOrgs) = 1
         THEN PickJob(CHOOSE o \in matchedOrgs : TRUE)
       ELSE IF msg.dev /\ Cardinality(devOrgs) = 1
         THEN PickJob(CHOOSE o \in devOrgs : TRUE)
       ELSE IF msg.prod /\ Cardinality(prodOrgs) = 1
         THEN PickJob(CHOOSE o \in prodOrgs : TRUE)
       ELSE PickChooser

\* Steps 4..4e of handleEventAsync: the org a message is resolved to.
ResolveOrg(valid, t, msg) ==
  IF valid = {} THEN [kind |-> "noOrg", org |-> "none"]
  ELSE IF Cardinality(valid) = 1 THEN PickJob(CHOOSE o \in valid : TRUE)
  ELSE IF ThreadJobs(t) # {} THEN PickJob(jobs[LatestThreadJob(t)].orgId)
  ELSE
    LET matchedOrgs == msg.names \cap valid
        devOrgs  == {o \in valid : OrgType(o) \in {"sandbox", "developer"}}
        prodOrgs == {o \in valid : OrgType(o) = "production"}
    IN IF Cardinality(matchedOrgs) = 1
         THEN PickJob(CHOOSE o \in matchedOrgs : TRUE)
       ELSE IF Cardinality(matchedOrgs) > 1 THEN PickChooser
       ELSE IF msg.dev /\ Cardinality(devOrgs) = 1
         THEN PickJob(CHOOSE o \in devOrgs : TRUE)
       ELSE IF msg.prod /\ Cardinality(prodOrgs) = 1
         THEN PickJob(CHOOSE o \in prodOrgs : TRUE)
       ELSE PickChooser

\* The Job row of prisma.job.create in handleOrgMessage.  event, win and via
\* are history: the event the message came with, the de-duplication window
\* in which it was accepted, and whether a chooser click created the job.
NewJob(o, t, u, msg, ev, win, via) ==
  [status |-> "queued", orgId |-> o, thread |-> t,
   userId |-> u, description |-> msg,
   completedAt |-> FALSE, durationMs |-> FALSE, pendingQuestion |-> FALSE,
   conv |-> 0, convBy |-> 0, convLast |-> <<>>,
   event |-> ev, win |-> win, via |-> via]

\* Variant: the queue entry is keyed by the thread, not by the job's id.
HandleOrgMessage_ThreadKey(o, t, u, msg, ev, win, via) ==
  IF orgs[o] = "gone"
  THEN UNCHANGED <<jobs, nextId, queue>>
  ELSE /\ jobs' = [jobs EXCEPT ![nextId] = NewJob(o, t, u, msg, ev, win, via)]
       /\ nextId' = nextId + 1
       /\ queue' = QueueAdd(queue, t, o, t)

\* handleOrgMessage: create the Job row, then enqueue under the job's id.
\* prisma.job.create fails on the Job -> Org relation when the org row is
\* gone; the rejection is logged by the caller's .catch.
HandleOrgMessage(o, t, u, msg, ev, win, via) ==
  IF orgs[o] = "gone"
  THEN UNCHANGED <<jobs, nextId, queue>>
  ELSE /\ jobs' = [jobs EXCEPT ![nextId] = NewJob(o, t, u, msg, ev, win, via)]
       /\ nextId' = nextId + 1
       /\ queue' = QueueAdd(queue, nextId, o, t)

\* Variant: the event id is recorded but never looked up.
PostEvents_NoLookup(e) ==
  /\ Ready
  /\ UNCHANGED toolVars
  /\ resp' = Response("events", e, 200)
  /\ processedEvents' = processedEvents \cup {e}
  /\ pending' = pending \cup {[event |-> e, win |-> clears, data |-> NoClick]}
  /\ UNCHANGED <<orgs, jobs, logs, artifacts, nextId, queue, clears,
                 pickers, workers, disc>>

\* POST /events with type event_callback and event_id e.
PostEvents(e) ==
  /\ Ready
  /\ UNCHANGED toolVars
  /\ resp' = Response("events", e, 200)
  /\ IF e \in processedEvents
     THEN UNCHANGED <<processedEvents, pending>>
     ELSE /\ processedEvents' = processedEvents \cup {e}
          /\ pending' = pending \cup {[event |-> e, win |-> clears, data |-> NoClick]}
  /\ UNCHANGED <<orgs, jobs, logs, artifacts, nextId, queue, clears,
                 pickers, workers, disc>>

\* setInterval(() => processedEvents.clear(), 5 min)
ClearProcessedEvents ==
  /\ Ready
  /\ UNCHANGED toolVars
  /\ clears < MaxClears
  /\ processedEvents' = {}
  /\ clears' = clears + 1
  /\ UNCHANGED <<orgs, jobs, logs, artifacts, nextId, queue, pending,
                 pickers, workers, disc, resp>>

\* The detached continuation handleEventAsync(teamId, event).
HandleEventAsync(p, cap) ==
  /\ Ready
  /\ UNCHANGED toolVars
  /\ p \in pending
  /\ p.data = NoClick
  /\ nextId <= cap
  /\ pending' = pending \ {p}
  /\ LET c == EventContent(p.event)
         r == ResolveOrg(ValidOrgs, c.thread, c.msg)
     IN IF c.kind = "ignored"
        THEN UNCHANGED <<jobs, nextId, queue, pickers, resp>>
        ELSE IF r.kind = "noOrg"
        THEN /\ resp' = Response("noOrgReply", c.thread, 0)
             /\ UNCHANGED <<jobs, nextId, queue, pickers>>
        ELSE IF r.kind = "job"
        THEN /\ HandleOrgMessage(r.org, c.thread, c.user, c.msg,
                                  p.event, p.win, "event")
             /\ UNCHANGED <<pickers, resp>>
        ELSE /\ pickers' = pickers \cup
                  {[orgs |-> ValidOrgs, thread |-> c.thread,
                    userId |-> c.user, messageText |-> c.msg,
                    event |-> p.event, win |-> p.win]}
             /\ UNCHANGED <<jobs, nextId, queue, resp>>
  /\ UNCHANGED <<orgs, logs, artifacts, processedEvents, clears, workers,
                 disc>>

\* Variant: the button carries no message text.
ButtonValue_NoText(p, o) ==
  [orgId |-> o, userId |-> p.userId, messageText |-> PlainMsg,
   thread |-> p.thread]

\* The value of the button pick_org_<o> of chooser p: what the click hands
\* back to handleInteractionAsync (channel and threadTs are the thread).
ButtonValue(p, o) ==
  [orgId |-> o, userId |-> p.userId, messageText |-> p.messageText,
   thread |-> p.thread]

\* Variant: the job is created before the request is acknowledged.
PostInteractions_Inline(p, o, cap) ==
  /\ Ready
  /\ UNCHANGED toolVars
  /\ p \in pickers
  /\ o \in p.orgs
  /\ nextId <= cap
  /\ resp' = Response("interactions", p.event, 200)
  /\ LET data == ButtonValue(p, o)
     IN HandleOrgMessage(data.orgId, data.thread, data.userId,
                         data.messageText, p.event, p.win, "click")
  /\ UNCHANGED <<orgs, logs, artifacts, processedEvents, clears, pending,
                 pickers, workers, disc>>

\* POST /interactions with a pick_org_<o> button of chooser p: acknowledge,
\* then start the detached handleInteractionAsync(payload).
PostInteractions(p, o, cap) ==
  /\ Ready
  /\ UNCHANGED toolVars
  /\ p \in pickers
  /\ o \in p.orgs
  /\ nextId <= cap
  /\ resp' = Response("interactions", p.event, 200)
  /\ pending' = pending \cup
       {[event |-> p.event, win |-> p.win, data |-> ButtonValue(p, o)]}
  /\ UNCHANGED <<orgs, jobs, logs, artifacts, nextId, queue,
                 processedEvents, clears, pickers, workers, disc>>

\* The detached continuation handleInteractionAsync(payload) of a click.
\* A rejection of handleOrgMessage is logged by the caller's .catch.
HandleInteractionAsync(p, cap) ==
  /\ Ready
  /\ UNCHANGED toolVars
  /\ p \in pending
  /\ p.data # NoClick
  /\ nextId <= cap
  /\ pending' = pending \ {p}
  /\ HandleOrgMessage(p.data.orgId, p.data.thread, p.data.userId,
                      p.data.messageText, p.event, p.win, "click")
  /\ UNCHANGED <<orgs, logs, artifacts, processedEvents, clears, pickers,
                 workers, disc, resp>>

\* The request is over.
RequestDone ==
  /\ resp # NoResp
  /\ resp' = NoResp
  /\ UNCHANGED toolVars
  /\ UNCHANGED <<orgs, jobs, logs, artifacts, nextId, queue,
                 processedEvents, clears, pending, pickers, workers, disc>>

\* ========================================================= dispatch queue
SetEntry(q, j, new) == {IF e.jobId = j THEN new ELSE e : e \in q}

\* A worker slot fetches the next waiting entry and starts its handler.
TakeJob(w) ==
  /\ Ready
  /\ UNCHANGED toolVars
  /\ workers[w].pc = "idle"
  /\ \E e \in queue :
       /\ e.state = "waiting"
       /\ queue' = SetEntry(queue, e.jobId,
                     [e EXCEPT !.state = "active"])
       /\ workers' = [workers EXCEPT ![w] =
                        [IdleWorker EXCEPT !.pc = "start", !.entry = e.jobId]]
  /\ UNCHANGED <<orgs, jobs, logs, artifacts, nextId, processedEvents,
                 clears, pending, pickers, disc, resp>>

\* The handler returned: the entry is completed (kept, removeOnComplete 100).
EntryCompleted(e) == [e EXCEPT !.state = "completed",
                               !.attemptsMade = @ + 1]

\* Variant: one attempt more than configured.
EntryFailed_OneMore(e) ==
  IF e.attemptsMade + 1 <= Attempts
  THEN [e EXCEPT !.state = "delayed", !.attemptsMade = @ + 1,
                 !.delay = BackoffDelay(e.attemptsMade + 1)]
  ELSE [e EXCEPT !.state = "failed", !.attemptsMade = @ + 1, !.delay = 0]

\* The handler threw: with attempts left the entry is delayed by the
\* exponential backoff and retried, otherwise it is failed for good.
EntryFailed(e) ==
  IF e.attemptsMade + 1 < Attempts
  THEN [e EXCEPT !.state = "delayed", !.attemptsMade = @ + 1,
                 !.delay = BackoffDelay(e.attemptsMade + 1)]
  ELSE [e EXCEPT !.state = "failed", !.attemptsMade = @ + 1, !.delay = 0]

\* BullMQ settles the entry once the handler's promise has settled.
SettleJob(w) ==
  LET j == workers[w].entry
      e == Entry(j)
  IN
  /\ Ready
  /\ UNCHANGED toolVars
  /\ workers[w].pc \in {"returned", "threw"}
  /\ queue' = SetEntry(queue, j, IF workers[w].pc = "returned"
                                 THEN EntryCompleted(e) ELSE EntryFailed(e))
  /\ workers' = [workers EXCEPT ![w] = IdleWorker]
  /\ UNCHANGED <<orgs, jobs, logs, artifacts, nextId, processedEvents,
                 clears, pending, pickers, disc, resp>>

\* The backoff delay of a delayed entry has elapsed.
PromoteDelayed(j) ==
  /\ Ready
  /\ UNCHANGED toolVars
  /\ \E e \in queue :
       /\ e.jobId = j
       /\ e.state = "delayed"
       /\ queue' = SetEntry(queue, j, [e EXCEPT !.state = "waiting"])
  /\ UNCHANGED <<orgs, jobs, logs, artifacts, nextId, processedEvents,
                 clears, pending, pickers, workers, disc, resp>>

\* ================================== worker, src/workers/agentWorker.ts
\* Step 1: prisma.job.update({status: "running"}) and the first log line.
\* update throws when the row does not exist.
P1Start(w) ==
  LET j == workers[w].entry IN
  /\ Ready
  /\ UNCHANGED toolVars
  /\ workers[w].pc = "start"
  /\ IF ~Exists(j)
     THEN /\ workers' = [workers EXCEPT ![w].pc = "catch"]
          /\ UNCHANGED <<jobs, logs>>
     ELSE /\ jobs' = [jobs EXCEPT ![j].status = "running"]
          /\ logs' = LogToJob(logs, j)
          /\ workers' = [workers EXCEPT ![w].pc = "run"]
  /\ UNCHANGED <<orgs, artifacts, nextId, queue, processedEvents, clears,
                 pending, pickers, disc, resp>>

\* Steps 2..6: org lookup, acknowledgement in the thread, re-authentication
\* (its failure only logged), completion of the job, completion reply.
P1Run(w, slackOk1, slackOk2, loginOk) ==
  LET j  == workers[w].entry
      o  == Entry(j).orgId
      n  == IF HasClientCredentials(o) THEN 4 ELSE 3
      ws == workers[w]
  IN
  /\ Ready
  /\ UNCHANGED toolVars
  /\ ws.pc = "run"
  /\ IF orgs[o] = "gone"
     THEN /\ workers' = [workers EXCEPT ![w].pc = "catch"]
          /\ UNCHANGED <<orgs, jobs, logs>>
     ELSE IF ~slackOk1
     THEN /\ workers' = [workers EXCEPT ![w] =
                           [TryReply(ws) EXCEPT !.pc = "catch"]]
          /\ UNCHANGED <<orgs, jobs, logs>>
     ELSE IF ~Exists(j)
     THEN /\ workers' = [workers EXCEPT ![w] =
                           [PostReply(ws, "connected") EXCEPT !.pc = "catch"]]
          /\ UNCHANGED <<orgs, jobs, logs>>
     ELSE /\ orgs' = IF HasClientCredentials(o) /\ loginOk
                     THEN [orgs EXCEPT ![o] = "valid"] ELSE orgs
          /\ jobs' = [jobs EXCEPT ![j].status = "completed",
                                  ![j].completedAt = TRUE,
                                  ![j].durationMs = TRUE]
          /\ logs' = [logs EXCEPT ![j] = @ + n]
          /\ workers' = [workers EXCEPT ![w] =
               IF slackOk2
               THEN [PostReply(PostReply(ws, "connected"), "complete")
                       EXCEPT !.pc = "returned"]
               ELSE [PostReply(ws, "connected") EXCEPT !.pc = "catch"]]
  /\ UNCHANGED <<artifacts, nextId, queue, processedEvents, clears,
                 pending, pickers, disc, resp>>

\* The catch block: mark the job failed, log, notify, re-throw to BullMQ.
P1Catch(w, slackOk) ==
  LET j  == workers[w].entry
      ws == workers[w]
  IN
  /\ Ready
  /\ UNCHANGED toolVars
  /\ ws.pc = "catch"
  /\ IF ~Exists(j)
     THEN /\ workers' = [workers EXCEPT ![w].pc = "threw"]
          /\ UNCHANGED <<jobs, logs>>
     ELSE /\ jobs' = [jobs EXCEPT ![j].status = "failed",
                                  ![j].durationMs = TRUE]
          /\ logs' = LogToJob(logs, j)
          /\ workers' = [workers EXCEPT ![w] =
               [(IF slackOk THEN PostReply(ws, "error") ELSE TryReply(ws))
                  EXCEPT !.pc = "threw"]]
  /\ UNCHANGED <<orgs, artifacts, nextId, queue, processedEvents, clears,
                 pending, pickers, disc, resp>>

\* ============================ loop worker and runAgentLoop (agent/loop)
StopReasons == {"end_turn", "tool_use", "other"}

\* The ids of the tool_use blocks of one response, in the response's order.
ToolUses == {<<"toolu_1">>, <<"toolu_1", "toolu_2">>}

\* Worker: logToJob(data.jobId, "Job picked up by worker").
LoopStart(w) ==
  LET j == workers[w].entry IN
  /\ Ready
  /\ UNCHANGED toolVars
  /\ workers[w].pc = "start"
  /\ IF ~Exists(j)
     THEN /\ workers' = [workers EXCEPT ![w].pc = "catch"]
          /\ UNCHANGED logs
     ELSE /\ logs' = LogToJob(logs, j)
          /\ workers' = [workers EXCEPT ![w].pc = "connect"]
  /\ UNCHANGED <<orgs, jobs, artifacts, nextId, queue, processedEvents,
                 clears, pending, pickers, disc, resp>>

\* The jobs of the payload's org in the payload's thread.
LoopThreadJobs(o, t) == {j \in ThreadJobs(t) : jobs[j].orgId = o}

\* runAgentLoop up to the loop: connection and org summary (either may
\* throw), the latest job of the thread or a new one, status running, the
\* user's message pushed onto the conversation.
LoopConnect(w, connOk) ==
  LET e     == Entry(workers[w].entry)
      cands == LoopThreadJobs(e.orgId, e.thread)
      ws    == workers[w]
  IN
  /\ Ready
  /\ UNCHANGED toolVars
  /\ ws.pc = "connect"
  /\ IF ~connOk
     THEN /\ workers' = [workers EXCEPT ![w].pc = "loopCatch"]
          /\ UNCHANGED <<jobs, nextId>>
     ELSE IF cands # {}
     THEN LET j == Max(cands) IN
          /\ jobs' = [jobs EXCEPT ![j].status = "running"]
          /\ workers' = [workers EXCEPT ![w] =
               [ws EXCEPT !.pc = "turn", !.jobId = j, !.turn = 0,
                          !.hist = jobs[j].conv + 1]]
          /\ UNCHANGED nextId
     ELSE IF orgs[e.orgId] = "gone"
     THEN /\ workers' = [workers EXCEPT ![w].pc = "loopCatch"]
          /\ UNCHANGED <<jobs, nextId>>
     ELSE /\ nextId <= MaxJobs
          /\ jobs' = [jobs EXCEPT ![nextId] =
               [NewJob(e.orgId, e.thread, "u1", PlainMsg, 0, 0, "loop")
                  EXCEPT !.status = "running"]]
          /\ nextId' = nextId + 1
          /\ workers' = [workers EXCEPT ![w] =
               [ws EXCEPT !.pc = "turn", !.jobId = nextId, !.turn = 0,
                          !.hist = 1]]
  /\ UNCHANGED <<orgs, logs, artifacts, queue, processedEvents, clears,
                 pending, pickers, disc, resp>>

\* Variant: the loop has no turn cap.
WhileCondition_NoCap(turnCount) == turnCount >= 0

\* while (turnCount < MAX_TURNS)
WhileCondition(turnCount) == turnCount < MAX_TURNS

\* One pass of while (turnCount < MAX_TURNS): the model is called (apiOk:
\* the call returns) and answers with stop_reason stop; hasText: the final
\* answer has text; slackOk: the reply is accepted.
LoopTurn(w, apiOk, stop, calls, hasText, slackOk) ==
  LET ws == workers[w]
      j  == ws.jobId
      t  == ws.turn + 1
  IN
  /\ Ready
  /\ UNCHANGED toolVars
  /\ ws.pc = "turn"
  /\ WhileCondition(ws.turn)
  /\ IF ~apiOk
     THEN /\ workers' = [workers EXCEPT ![w] =
               [ws EXCEPT !.pc = "loopCatch", !.turn = t]]
          /\ UNCHANGED jobs
     ELSE IF stop = "end_turn"
     THEN IF hasText /\ ~slackOk
          THEN /\ workers' = [workers EXCEPT ![w] =
                    [TryReply(ws) EXCEPT !.pc = "loopCatch", !.turn = t,
                                         !.stop = stop, !.hist = @ + 1]]
               /\ UNCHANGED jobs
          ELSE LET said == IF hasText THEN PostReply(ws, "answer") ELSE ws
               IN IF ~Exists(j)
                  THEN /\ workers' = [workers EXCEPT ![w] =
                            [said EXCEPT !.pc = "loopCatch", !.turn = t,
                                         !.stop = stop, !.hist = @ + 1]]
                       /\ UNCHANGED jobs
                  ELSE /\ jobs' = [jobs EXCEPT ![j].conv = ws.hist + 1,
                                              ![j].convBy = ws.entry,
                                              ![j].convLast = <<>>,
                                              ![j].status = "completed",
                                              ![j].completedAt = TRUE]
                       /\ workers' = [workers EXCEPT ![w] =
                            [said EXCEPT !.pc = "loopReturned", !.turn = t,
                                         !.stop = stop, !.hist = @ + 1]]
     ELSE IF stop = "tool_use"
     THEN /\ workers' = [workers EXCEPT ![w] =
               [ws EXCEPT !.pc = "tools", !.turn = t, !.stop = stop,
                          !.hist = @ + 1, !.calls = calls]]
          /\ UNCHANGED jobs
     ELSE /\ workers' = [workers EXCEPT ![w] =
               [ws EXCEPT !.pc = "limit", !.turn = t, !.stop = stop,
                          !.hist = @ + 1]]
          /\ UNCHANGED jobs
  /\ UNCHANGED <<orgs, logs, artifacts, nextId, queue, processedEvents,
                 clears, pending, pickers, disc, resp>>

\* Variant: the results are collected newest first.
ToolResults_Reversed(calls) ==
  [i \in 1..Len(calls) |-> [tool_use_id |-> calls[Len(calls) + 1 - i]]]

\* for (const toolCall of toolUseBlocks) { ...; toolResults.push({type:
\* "tool_result", tool_use_id: toolCall.id, ...}) }
ToolResults(calls) ==
  [i \in 1..Len(calls) |-> [tool_use_id |-> calls[i]]]

\* The tool_use branch: every requested tool is executed in turn (executeTool
\* returns a ToolResult, it does not throw), the results are pushed as one
\* user turn, and the conversation is saved to the job row.
LoopTools(w) ==
  LET ws == workers[w]
      j  == ws.jobId
  IN
  /\ Ready
  /\ UNCHANGED toolVars
  /\ ws.pc = "tools"
  /\ IF ~Exists(j)
     THEN /\ workers' = [workers EXCEPT ![w] =
               [ws EXCEPT !.pc = "loopCatch", !.hist = @ + 1,
                          !.calls = <<>>]]
          /\ UNCHANGED jobs
     ELSE /\ jobs' = [jobs EXCEPT ![j].conv = ws.hist + 1,
                                  ![j].convBy = ws.entry,
                                  ![j].convLast = ToolResults(ws.calls)]
          /\ workers' = [workers EXCEPT ![w] =
               [ws EXCEPT !.pc = IF WhileCondition(ws.turn) THEN "turn"
                                                            ELSE "limit",
                          !.hist = @ + 1, !.calls = <<>>]]
  /\ UNCHANGED <<orgs, logs, artifacts, nextId, queue, processedEvents,
                 clears, pending, pickers, disc, resp>>

\* Variant: the code after the loop marks the job failed.
LoopLimit_Failed(w, slackOk) ==
  LET ws == workers[w]
      j  == ws.jobId
  IN
  /\ Ready
  /\ UNCHANGED toolVars
  /\ ws.pc = "limit"
  /\ IF ~slackOk
     THEN /\ workers' = [workers EXCEPT ![w] =
               [TryReply(ws) EXCEPT !.pc = "loopCatch"]]
          /\ UNCHANGED jobs
     ELSE IF ~Exists(j)
     THEN /\ workers' = [workers EXCEPT ![w] =
               [PostReply(ws, "limit") EXCEPT !.pc = "loopCatch"]]
          /\ UNCHANGED jobs
     ELSE /\ jobs' = [jobs EXCEPT ![j].conv = ws.hist,
                                  ![j].convBy = ws.entry,
                                  ![j].convLast = <<>>,
                                  ![j].status = "failed"]
          /\ workers' = [workers EXCEPT ![w] =
               [PostReply(ws, "limit") EXCEPT !.pc = "loopReturned"]]
  /\ UNCHANGED <<orgs, logs, artifacts, nextId, queue, processedEvents,
                 clears, pending, pickers, disc, resp>>

\* The code after the loop, reached when the while condition fails and by
\* the break: the capacity message, then conversation, status completed and
\* completedAt.
LoopLimit(w, slackOk) ==
  LET ws == workers[w]
      j  == ws.jobId
  IN
  /\ Ready
  /\ UNCHANGED toolVars
  /\ ws.pc = "limit"
  /\ IF ~slackOk
     THEN /\ workers' = [workers EXCEPT ![w] =
               [TryReply(ws) EXCEPT !.pc = "loopCatch"]]
          /\ UNCHANGED jobs
     ELSE IF ~Exists(j)
     THEN /\ workers' = [workers EXCEPT ![w] =
               [PostReply(ws, "limit") EXCEPT !.pc = "loopCatch"]]
          /\ UNCHANGED jobs
     ELSE /\ jobs' = [jobs EXCEPT ![j].conv = ws.hist,
                                  ![j].convBy = ws.entry,
                                  ![j].convLast = <<>>,
                                  ![j].status = "completed",
                                  ![j].completedAt = TRUE]
          /\ workers' = [workers EXCEPT ![w] =
               [PostReply(ws, "limit") EXCEPT !.pc = "loopReturned"]]
  /\ UNCHANGED <<orgs, logs, artifacts, nextId, queue, processedEvents,
                 clears, pending, pickers, disc, resp>>

\* Variant: a failed error reply escapes from runAgentLoop to the worker.
LoopError_Rethrow(w, slackOk) ==
  LET ws == workers[w] IN
  /\ Ready
  /\ UNCHANGED toolVars
  /\ ws.pc = "loopCatch"
  /\ workers' = [workers EXCEPT ![w] =
       IF slackOk
       THEN [PostReply(ws, "loopError") EXCEPT !.pc = "loopReturned"]
       ELSE [TryReply(ws) EXCEPT !.pc = "catch"]]
  /\ UNCHANGED <<orgs, jobs, logs, artifacts, nextId, queue,
                 processedEvents, clears, pending, pickers, disc, resp>>

\* runAgentLoop's catch: a best-effort error reply; the function returns.
LoopError(w, slackOk) ==
  LET ws == workers[w] IN
  /\ Ready
  /\ UNCHANGED toolVars
  /\ ws.pc = "loopCatch"
  /\ workers' = [workers EXCEPT ![w] =
       [(IF slackOk THEN PostReply(ws, "loopError") ELSE TryReply(ws))
          EXCEPT !.pc = "loopReturned"]]
  /\ UNCHANGED <<orgs, jobs, logs, artifacts, nextId, queue,
                 processedEvents, clears, pending, pickers, disc, resp>>

\* Worker: logToJob(data.jobId, "Job completed in ...").
LoopFinish(w) ==
  LET j == workers[w].entry IN
  /\ Ready
  /\ UNCHANGED toolVars
  /\ workers[w].pc = "loopReturned"
  /\ IF ~Exists(j)
     THEN /\ workers' = [workers EXCEPT ![w].pc = "catch"]
          /\ UNCHANGED logs
     ELSE /\ logs' = LogToJob(logs, j)
          /\ workers' = [workers EXCEPT ![w].pc = "returned"]
  /\ UNCHANGED <<orgs, jobs, artifacts, nextId, queue, processedEvents,
                 clears, pending, pickers, disc, resp>>

\* Worker's catch: status failed with durationMs, log, reply, re-throw.
LoopWorkerCatch(w, slackOk) ==
  LET j  == workers[w].entry
      ws == workers[w]
  IN
  /\ Ready
  /\ UNCHANGED toolVars
  /\ ws.pc = "catch"
  /\ IF ~Exists(j)
     THEN /\ workers' = [workers EXCEPT ![w].pc = "threw"]
          /\ UNCHANGED <<jobs, logs>>
     ELSE /\ jobs' = [jobs EXCEPT ![j].status = "failed",
                                  ![j].durationMs = TRUE]
          /\ logs' = LogToJob(logs, j)
          /\ workers' = [workers EXCEPT ![w] =
               [(IF slackOk THEN PostReply(ws, "error") ELSE TryReply(ws))
                  EXCEPT !.pc = "threw"]]
  /\ UNCHANGED <<orgs, artifacts, nextId, queue, processedEvents, clears,
                 pending, pickers, disc, resp>>

\* ================================================ job control, jobs.ts
\* POST /api/jobs/:jobId/respond
Respond(j) ==
  /\ Ready
  /\ UNCHANGED toolVars
  /\ IF ~Exists(j)
     THEN /\ resp' = Response("respond", j, 404)
          /\ UNCHANGED <<jobs, logs>>
     ELSE IF jobs[j].status # "paused" /\ jobs[j].status # "waiting_for_input"
     THEN /\ resp' = Response("respond", j, 409)
          /\ UNCHANGED <<jobs, logs>>
     ELSE /\ logs' = LogToJob(logs, j)
          /\ jobs' = [jobs EXCEPT ![j].status = "running",
                                  ![j].pendingQuestion = FALSE]
          /\ resp' = Response("respond", j, 200)
  /\ UNCHANGED <<orgs, artifacts, nextId, queue, processedEvents, clears,
                 pending, pickers, workers, disc>>

\* Variant: retry without the status check.
Retry_AnyStatus(j) ==
  /\ Ready
  /\ UNCHANGED toolVars
  /\ IF ~Exists(j)
     THEN /\ resp' = Response("retry", j, 404)
          /\ UNCHANGED <<jobs, logs>>
     ELSE /\ logs' = LogToJob(logs, j)
          /\ jobs' = [jobs EXCEPT ![j].status = "queued",
                                  ![j].completedAt = FALSE,
                                  ![j].durationMs = FALSE,
                                  ![j].pendingQuestion = FALSE]
          /\ resp' = Response("retry", j, 200)
  /\ UNCHANGED <<orgs, artifacts, nextId, queue, processedEvents, clears,
                 pending, pickers, workers, disc>>

\* POST /api/jobs/:jobId/retry
Retry(j) ==
  /\ Ready
  /\ UNCHANGED toolVars
  /\ IF ~Exists(j)
     THEN /\ resp' = Response("retry", j, 404)
          /\ UNCHANGED <<jobs, logs>>
     ELSE IF jobs[j].status # "failed"
     THEN /\ resp' = Response("retry", j, 409)
          /\ UNCHANGED <<jobs, logs>>
     ELSE /\ logs' = LogToJob(logs, j)
          /\ jobs' = [jobs EXCEPT ![j].status = "queued",
                                  ![j].completedAt = FALSE,
                                  ![j].durationMs = FALSE,
                                  ![j].pendingQuestion = FALSE]
          /\ resp' = Response("retry", j, 200)
  /\ UNCHANGED <<orgs, artifacts, nextId, queue, processedEvents, clears,
                 pending, pickers, workers, disc>>

\* ========================================= DELETE /api/orgs/:orgId, orgs.ts
OrgJobs(o) == {j \in JobIds : Exists(j) /\ jobs[j].orgId = o}

ActiveJobs(o) == {j \in OrgJobs(o) : jobs[j].status \in {"queued", "running"}}

ioVars == <<nextId, queue, processedEvents, clears, pending, pickers,
            workers>>

\* Variant: disconnect without the count of active jobs.
DisconnectCheck_NoCount(o) ==
  /\ Ready
  /\ UNCHANGED toolVars
  /\ disc.pc = "idle"
  /\ IF orgs[o] = "gone"
     THEN /\ resp' = Response("disconnect", o, 404)
          /\ UNCHANGED disc
     ELSE /\ disc' = [pc |-> "list", org |-> o]
          /\ UNCHANGED resp
  /\ UNCHANGED <<dbVars, ioVars>>

\* findFirst(org), then count of the org's queued and running jobs.
DisconnectCheck(o) ==
  /\ Ready
  /\ UNCHANGED toolVars
  /\ disc.pc = "idle"
  /\ IF orgs[o] = "gone"
     THEN /\ resp' = Response("disconnect", o, 404)
          /\ UNCHANGED disc
     ELSE IF Cardinality(ActiveJobs(o)) > 0
     THEN /\ resp' = Response("disconnect", o, 409)
          /\ UNCHANGED disc
     ELSE /\ disc' = [pc |-> "list", org |-> o]
          /\ UNCHANGED resp
  /\ UNCHANGED <<dbVars, ioVars>>

\* findMany({orgId}, select id); when it finds jobs,
\* jobLog.deleteMany({jobId in ids}) and jobArtifact.deleteMany likewise.
DisconnectDeleteLogs ==
  /\ Ready
  /\ UNCHANGED toolVars
  /\ disc.pc = "list"
  /\ LET ids == OrgJobs(disc.org) IN
       /\ logs' = [j \in JobIds |-> IF j \in ids THEN 0 ELSE logs[j]]
       /\ artifacts' = [j \in JobIds |-> IF j \in ids THEN 0 ELSE artifacts[j]]
       /\ disc' = [disc EXCEPT !.pc = IF ids = {} THEN "delOrg" ELSE "delJobs"]
  /\ UNCHANGED <<orgs, jobs, ioVars, resp>>

\* Rows of the jobs in S and everything that hangs on them are removed.
DeleteJobRows(S) ==
  /\ jobs' = [j \in JobIds |-> IF j \in S THEN NoJob ELSE jobs[j]]
  /\ logs' = [j \in JobIds |-> IF j \in S THEN 0 ELSE logs[j]]
  /\ artifacts' = [j \in JobIds |-> IF j \in S THEN 0 ELSE artifacts[j]]

\* The request dies on a database error.
DisconnectAbort ==
  /\ disc' = IdleDisc
  /\ resp' = Response("disconnect", disc.org, 500)

\* job.deleteMany({orgId}).  When a job to delete still has log or artifact
\* rows (written since the two deleteMany above), the relation either
\* cascades or makes the statement fail, depending on the schema.
DisconnectDeleteJobs ==
  /\ Ready
  /\ UNCHANGED toolVars
  /\ disc.pc = "delJobs"
  /\ LET S == OrgJobs(disc.org)
         dependents == \E j \in S : logs[j] > 0 \/ artifacts[j] > 0
     IN \/ /\ DeleteJobRows(S)
           /\ disc' = [disc EXCEPT !.pc = "delOrg"]
           /\ UNCHANGED resp
        \/ /\ dependents
           /\ DisconnectAbort
           /\ UNCHANGED <<jobs, logs, artifacts>>
  /\ UNCHANGED <<orgs, ioVars>>

\* org.delete({id}), then res.json({success: true}).  A job created for the
\* org since job.deleteMany hangs on the org row in the same way.
DisconnectDeleteOrg ==
  /\ Ready
  /\ UNCHANGED toolVars
  /\ disc.pc = "delOrg"
  /\ LET S == OrgJobs(disc.org)
     IN \/ /\ DeleteJobRows(S)
           /\ orgs' = [orgs EXCEPT ![disc.org] = "gone"]
           /\ disc' = IdleDisc
           /\ resp' = Response("disconnect", disc.org, 200)
        \/ /\ S # {}
           /\ DisconnectAbort
           /\ UNCHANGED dbVars
  /\ UNCHANGED ioVars

\* ======================================= tool execution, agent/tools.ts
ToolNames ==
  {"query_salesforce", "describe_object", "list_objects", "list_flows",
   "list_apex_classes", "get_apex_class_body", "get_apex_trigger_body",
   "get_flow_definition", "list_lwc_bundles", "get_lwc_source",
   "run_apex_tests", "get_code_coverage", "create_apex_class",
   "update_apex_class", "create_apex_trigger", "update_apex_trigger"}

AllTools ==
  {"query_salesforce", "describe_object", "list_objects", "list_flows",
   "list_apex_classes", "list_lwc_bundles"}

WriteTools ==
  {"create_apex_class", "update_apex_class", "create_apex_trigger",
   "update_apex_trigger"}

\* Two SOQL texts for the calls of every tool: SELECT x, and DELETE x.
SampleQueries ==
  {<<[k |-> "SELECT", n |-> 0], [k |-> "word", n |-> 0]>>,
   <<[k |-> "DELETE", n |-> 0], [k |-> "word", n |-> 0]>>}

\* toolModes.get(name): undefined for a name that is not in the map.
toolModes(name) ==
  IF name \in AllTools THEN "all"
  ELSE IF name \in ToolNames THEN "development"
  ELSE "undefined"

OrgTypes == {"production", "sandbox", "developer"}

\* Variant: no filter on the org type.
getToolsForOrg_Unfiltered(orgType) == ToolNames

\* The names of the tools getToolsForOrg offers to the model.
getToolsForOrg(orgType) ==
  IF orgType # "production" THEN ToolNames
  ELSE {n \in ToolNames : toolModes(n) = "all"}

\* One call of executeTool: the tool name, the org type, whether a
\* componentCache is passed; the SOQL text, whether the
\* component name passes validateName, whether the component is cached and
\* whether the org has it, whether the remote call returns, and whether a
\* save reports success.
Calls ==
  [name : ToolNames \cup {"unknown_tool"}, orgType : OrgTypes,
   cache : BOOLEAN, soql : SampleQueries, nameOk : BOOLEAN, cached : BOOLEAN,
   found : BOOLEAN, remoteOk : BOOLEAN, saveOk : BOOLEAN]

\* What a handler did: it returned a ToolResult or threw, after the
\* operations ops: the remote calls and, as "setCache", the cache writes.
Return(isError, content, ops, inv) ==
  [kind |-> "return", isError |-> isError, content |-> content,
   ops |-> ops, invalidated |-> inv]

Throw(content, ops) ==
  [kind |-> "throw", isError |-> TRUE, content |-> content, ops |-> ops,
   invalidated |-> FALSE]

\* Variant: a successful update leaves the caches alone.
executeUpdate_NoInvalidate(c) ==
  IF c.orgType = "production" THEN Throw("writeBlocked", <<>>)
  ELSE IF ~c.nameOk THEN Throw("invalidName", <<>>)
  ELSE IF ~c.cached /\ ~c.remoteOk
  THEN Throw("remoteError", <<"toolingQuery">>)
  ELSE IF ~c.cached /\ ~c.found THEN Throw("notFound", <<"toolingQuery">>)
  ELSE LET ops == IF c.cached THEN <<>> ELSE <<"toolingQuery", "setCache">>
       IN IF ~c.remoteOk THEN Throw("remoteError", ops \o <<"update">>)
          ELSE IF ~c.saveOk
          THEN Return(TRUE, "compileErrors", ops \o <<"update">>, FALSE)
          ELSE Return(FALSE, "updated", ops \o <<"update">>, FALSE)

\* Variant: the org type is not looked at.
assertWritableOrg_Any(orgType) == TRUE

\* assertWritableOrg: TRUE when it returns, FALSE when it throws.
assertWritableOrg(orgType) == orgType # "production"

\* ---- SOQL text. A text is a sequence of tokens: the keywords in either
\* case, other words, numbers, a quoted literal whose text holds the word
\* limit, and white space at the ends.
Tok(k) == [k |-> k, n |-> 0]

Num(n) == [k |-> "num", n |-> n]

\* String.prototype.trim
RECURSIVE TrimLeft(_)
TrimLeft(q) ==
  IF q # <<>> /\ Head(q) = Tok("sp") THEN TrimLeft(Tail(q)) ELSE q

RECURSIVE TrimRight(_)
TrimRight(q) ==
  IF q # <<>> /\ q[Len(q)] = Tok("sp")
  THEN TrimRight(SubSeq(q, 1, Len(q) - 1)) ELSE q

Trim(q) == TrimRight(TrimLeft(q))

\* String.prototype.toUpperCase on one token
ToUpper(t) ==
  IF t.k = "select" THEN Tok("SELECT")
  ELSE IF t.k = "limit" THEN Tok("LIMIT")
  ELSE t

\* soql.trim().toUpperCase().startsWith("SELECT")
StartsWithSelect(q) ==
  LET trimmed == Trim(q) IN
  trimmed # <<>> /\ ToUpper(Head(trimmed)) = Tok("SELECT")

\* /\bLIMIT\b/i.test(query): the word limit anywhere in the text, a quoted
\* literal included.
HasLimitWord(q) ==
  \E i \in DOMAIN q : ToUpper(q[i]) = Tok("LIMIT") \/ q[i] = Tok("litLimit")

\* The positions where /\bLIMIT\s+(\d+)/i matches.
LimitMatches(q) ==
  {i \in DOMAIN q :
     /\ ToUpper(q[i]) = Tok("LIMIT")
     /\ i + 1 \in DOMAIN q
     /\ q[i + 1].k = "num"}

\* The text executeQuery passes to conn.query: trimmed, " LIMIT 200"
\* appended when the word LIMIT does not occur, and the number of the first
\* match replaced by 2000 when it is greater.
FinalQuery(soql) ==
  LET query == Trim(soql)
      q1 == IF ~HasLimitWord(query)
            THEN query \o <<Tok("LIMIT"), Num(DefaultLimit)>>
            ELSE query
      ms == LimitMatches(q1)
  IN IF ms = {} THEN q1
     ELSE LET i == CHOOSE m \in ms : \A m2 \in ms : m <= m2 IN
          IF q1[i + 1].n > MaxLimit
          THEN [q1 EXCEPT ![i] = Tok("LIMIT"), ![i + 1] = Num(MaxLimit)]
          ELSE q1

\* Variant: the SELECT check is left out.
executeQuery_NoSelectCheck(c) ==
  IF ~c.remoteOk THEN Throw("remoteError", <<"query">>)
  ELSE Return(FALSE, "records", <<"query">>, FALSE)

executeQuery(c) ==
  IF ~StartsWithSelect(c.soql)
  THEN Return(TRUE, "onlySelect", <<>>, FALSE)
  ELSE IF ~c.remoteOk THEN Throw("remoteError", <<"query">>)
  ELSE Return(FALSE, "records", <<"query">>, FALSE)

\* executeListObjects, executeListFlows, executeListApexClasses: through
\* orgContext.getObjects and its siblings, which return the cached list or
\* fetch it and write it to the cache.
executeList(c) ==
  IF c.cached THEN Return(FALSE, "data", <<>>, FALSE)
  ELSE IF ~c.remoteOk THEN Throw("remoteError", <<"read">>)
  ELSE Return(FALSE, "data", <<"read", "setCache">>, FALSE)

\* The handlers that read through conn.
executeRead(c) ==
  IF ~c.remoteOk THEN Throw("remoteError", <<"read">>)
  ELSE Return(FALSE, "data", <<"read">>, FALSE)

\* Variant: the cache is looked up before the name is validated.
getComponent_CacheFirst(c) ==
  IF c.cached THEN Return(FALSE, "body", <<"getCached">>, FALSE)
  ELSE IF ~c.nameOk THEN Throw("invalidName", <<"getCached">>)
  ELSE IF ~c.remoteOk
  THEN Throw("remoteError", <<"getCached", "toolingQuery">>)
  ELSE IF ~c.found THEN Throw("notFound", <<"getCached", "toolingQuery">>)
  ELSE Return(FALSE, "body", <<"getCached", "toolingQuery", "setCache">>,
              FALSE)

\* componentCache.getApexClassBody and its siblings: validateName, the
\* cached entry, else the Tooling API query, not found.
getComponent(c) ==
  IF ~c.nameOk THEN Throw("invalidName", <<>>)
  ELSE IF c.cached THEN Return(FALSE, "body", <<"getCached">>, FALSE)
  ELSE IF ~c.remoteOk
  THEN Throw("remoteError", <<"getCached", "toolingQuery">>)
  ELSE IF ~c.found THEN Throw("notFound", <<"getCached", "toolingQuery">>)
  ELSE Return(FALSE, "body", <<"getCached", "toolingQuery", "setCache">>,
              FALSE)

\* list_lwc_bundles dereferences componentCache, which may be null.
executeListLwcBundles(c) ==
  IF ~c.cache THEN Throw("nullCache", <<>>)
  ELSE IF c.cached THEN Return(FALSE, "bundles", <<>>, FALSE)
  ELSE IF ~c.remoteOk THEN Throw("remoteError", <<"toolingQuery">>)
  ELSE Return(FALSE, "bundles", <<"toolingQuery", "setCache">>, FALSE)

\* executeCreateApexClass, executeCreateApexTrigger
executeCreate(c) ==
  IF ~assertWritableOrg(c.orgType) THEN Throw("writeBlocked", <<>>)
  ELSE IF ~c.remoteOk THEN Throw("remoteError", <<"create">>)
  ELSE IF ~c.saveOk THEN Return(TRUE, "compileErrors", <<"create">>, FALSE)
  ELSE Return(FALSE, "created", <<"create">>, TRUE)

\* executeUpdateApexClass, executeUpdateApexTrigger
executeUpdate(c) ==
  IF ~assertWritableOrg(c.orgType) THEN Throw("writeBlocked", <<>>)
  ELSE LET g == getComponent(c) IN
       IF g.kind = "throw" THEN g
       ELSE IF ~c.remoteOk THEN Throw("remoteError", g.ops \o <<"update">>)
       ELSE IF ~c.saveOk
       THEN Return(TRUE, "compileErrors", g.ops \o <<"update">>, FALSE)
       ELSE Return(FALSE, "updated", g.ops \o <<"update">>, TRUE)

\* The switch of executeTool.
Handler(c) ==
  CASE c.name = "query_salesforce" -> executeQuery(c)
    [] c.name \in {"list_objects", "list_flows", "list_apex_classes"}
         -> executeList(c)
    [] c.name \in {"describe_object", "run_apex_tests",
                   "get_code_coverage"} -> executeRead(c)
    [] c.name \in {"get_apex_class_body", "get_apex_trigger_body",
                   "get_flow_definition", "get_lwc_source"}
         -> getComponent(c)
    [] c.name = "list_lwc_bundles" -> executeListLwcBundles(c)
    [] c.name \in {"create_apex_class", "create_apex_trigger"}
         -> executeCreate(c)
    [] c.name \in {"update_apex_class", "update_apex_trigger"}
         -> executeUpdate(c)
    [] OTHER -> Return(TRUE, "unknownTool", <<>>, FALSE)

\* Variant: executeTool without its try/catch.
executeTool_NoCatch(c) ==
  IF toolModes(c.name) = "development" /\ ~c.cache
  THEN Return(TRUE, "notAvailable", <<>>, FALSE)
  ELSE Handler(c)

\* executeTool: the guard on development tools without a componentCache,
\* the switch, and the catch that turns a throw into an error result.
executeTool(c) ==
  IF toolModes(c.name) = "development" /\ ~c.cache
  THEN Return(TRUE, "notAvailable", <<>>, FALSE)
  ELSE LET h == Handler(c) IN
       IF h.kind = "throw"
       THEN Return(TRUE, h.content, h.ops, FALSE)
       ELSE h

\* The calls on the remote connection among the operations of a handler.
IsRemoteOp(o) == o \notin {"getCached", "setCache"}

RemoteOps(ops) == SelectSeq(ops, IsRemoteOp)

\* A call of executeTool is about to be made with any arguments.
InitTool ==
  /\ InitLedger
  /\ call \in Calls
  /\ result = NoResult
  /\ remote = <<>>
  /\ offered = {}
  /\ sent = <<>>
  /\ cache = [k \in CacheKeys |-> NoEntry]
  /\ now = 0
  /\ ticks = 0

\* The call is made and ends.
ExecuteTool ==
  LET r == executeTool(call) IN
  /\ result = NoResult
  /\ result' = [kind |-> r.kind, isError |-> r.isError,
                content |-> r.content, invalidated |-> r.invalidated,
                ops |-> r.ops]
  /\ remote' = RemoteOps(r.ops)
  /\ sent' = IF \E i \in DOMAIN r.ops : r.ops[i] = "query"
             THEN FinalQuery(call.soql) ELSE <<>>
  /\ UNCHANGED <<call, offered, cacheVars, ledgerVars>>

\* The tool list for the call's org type is computed before the model is
\* asked.
GetToolsForOrg ==
  /\ offered = {}
  /\ offered' = getToolsForOrg(call.orgType)
  /\ UNCHANGED <<call, result, remote, sent, cacheVars, ledgerVars>>

\* ============================================================ specification
\* Orchestration: ingestion, dispatch, the worker, job control and
\* disconnects.
Next ==
  \/ \E e \in EventIds : PostEvents(e)
  \/ \E p \in pending : HandleEventAsync(p, MaxLedgerJobs)
  \/ \E p \in pickers, o \in OrgIds : PostInteractions(p, o, MaxLedgerJobs)
  \/ \E p \in pending : HandleInteractionAsync(p, MaxLedgerJobs)
  \/ RequestDone
  \/ \E w \in Workers : TakeJob(w)
  \/ \E w \in Workers : SettleJob(w)
  \/ \E j \in JobIds : PromoteDelayed(j)
  \/ \E w \in Workers : P1Start(w)
  \/ \E w \in Workers, a, b, c \in BOOLEAN : P1Run(w, a, b, c)
  \/ \E w \in Workers, a \in BOOLEAN : P1Catch(w, a)
  \/ \E j \in JobIds : Respond(j)
  \/ \E j \in JobIds : Retry(j)
  \/ \E o \in OrgIds : DisconnectCheck(o)
  \/ DisconnectDeleteLogs
  \/ DisconnectDeleteJobs
  \/ DisconnectDeleteOrg

Spec == Init /\ [][Next]_vars

\* Ingestion with the de-duplication set being cleared, dispatch, the worker.
NextIngest ==
  \/ \E e \in EventIds : PostEvents(e)
  \/ ClearProcessedEvents
  \/ \E p \in pending : HandleEventAsync(p, MaxJobs)
  \/ \E p \in pickers, o \in OrgIds : PostInteractions(p, o, MaxJobs)
  \/ \E p \in pending : HandleInteractionAsync(p, MaxJobs)
  \/ RequestDone
  \/ \E w \in Workers : TakeJob(w)
  \/ \E w \in Workers : SettleJob(w)
  \/ \E j \in JobIds : PromoteDelayed(j)
  \/ \E w \in Workers : P1Start(w)
  \/ \E w \in Workers, a, b, c \in BOOLEAN : P1Run(w, a, b, c)
  \/ \E w \in Workers, a \in BOOLEAN : P1Catch(w, a)

SpecIngest == Init /\ [][NextIngest]_vars

\* ---- the resolver run on one accepted event against the history of its
\* thread: the job records of earlier messages, oldest first.
\* POST /api/orgs/:orgId/test: the client-credentials login decides the
\* org's tokenStatus.
TestConnection(o, loginOk) ==
  /\ Ready
  /\ UNCHANGED toolVars
  /\ IF orgs[o] = "gone"
     THEN /\ resp' = Response("test", o, 404)
          /\ UNCHANGED orgs
     ELSE IF ~HasClientCredentials(o)
     THEN /\ resp' = Response("test", o, 400)
          /\ UNCHANGED orgs
     ELSE /\ orgs' = [orgs EXCEPT ![o] =
               IF loginOk THEN "valid" ELSE "expired"]
          /\ resp' = Response("test", o, IF loginOk THEN 200 ELSE 400)
  /\ UNCHANGED <<jobs, logs, artifacts, nextId, queue, processedEvents,
                 clears, pending, pickers, workers, disc>>

ResolveEvents == 1..NumContents

Histories ==
  UNION {[1..n -> OrgIds] : n \in 0..(MaxThreadJobs - 1)}

SeedJob(o) ==
  [NewJob(o, 1, "u1", PlainMsg, 0, 0, "event")
     EXCEPT !.status = "completed", !.completedAt = TRUE,
            !.durationMs = TRUE]

InitResolve ==
  /\ orgs \in [OrgIds -> {"valid", "expired", "gone"}]
  /\ \E h \in Histories :
       /\ \A i \in DOMAIN h : orgs[h[i]] # "gone"
       /\ jobs = [j \in JobIds |->
                    IF j \in DOMAIN h THEN SeedJob(h[j]) ELSE NoJob]
       /\ nextId = Len(h) + 1
       /\ queue = {EntryCompleted([jobId |-> j, orgId |-> h[j], thread |-> 1,
                                   state |-> "active", attemptsMade |-> 0,
                                   delay |-> 0]) : j \in DOMAIN h}
  /\ logs = [j \in JobIds |-> 0]
  /\ artifacts = [j \in JobIds |-> 0]
  /\ \E e \in ResolveEvents :
       /\ processedEvents = {e}
       /\ pending = {[event |-> e, win |-> 0, data |-> NoClick]}
  /\ clears = 0
  /\ pickers = {}
  /\ workers = [w \in Slots |-> IdleWorker]
  /\ disc = IdleDisc
  /\ resp = NoResp
  /\ call = NoCall
  /\ result = NoResult
  /\ remote = <<>>
  /\ offered = {}
  /\ sent = <<>>
  /\ cache = [k \in CacheKeys |-> NoEntry]
  /\ now = 0
  /\ ticks = 0

NextResolve ==
  \/ \E p \in pending : HandleEventAsync(p, MaxThreadJobs)
  \/ \E p \in pickers, o \in OrgIds : PostInteractions(p, o, MaxThreadJobs)
  \/ \E p \in pending : HandleInteractionAsync(p, MaxThreadJobs)
  \/ \E o \in OrgIds, a \in BOOLEAN : TestConnection(o, a)
  \/ RequestDone

SpecResolve == InitResolve /\ [][NextResolve]_vars

\* The ledger under fair scheduling: every response is sent, an idle worker
\* fetches a waiting entry, a started handler runs to its end, BullMQ
\* settles it, and every backoff delay elapses.
SpecFair ==
  /\ Spec
  /\ WF_vars(RequestDone)
  /\ \A w \in Workers :
       /\ SF_vars(TakeJob(w))
       /\ SF_vars(SettleJob(w))
       /\ SF_vars(P1Start(w))
       /\ SF_vars(\E a, b, c \in BOOLEAN : P1Run(w, a, b, c))
       /\ SF_vars(\E a \in BOOLEAN : P1Catch(w, a))
  /\ \A j \in JobIds : SF_vars(PromoteDelayed(j))

\* Ingestion, dispatch, the loop worker, and disconnects.
NextLoop ==
  \/ \E e \in EventIds : PostEvents(e)
  \/ \E p \in pending : HandleEventAsync(p, MaxLedgerJobs)
  \/ \E p \in pickers, o \in OrgIds : PostInteractions(p, o, MaxLedgerJobs)
  \/ \E p \in pending : HandleInteractionAsync(p, MaxLedgerJobs)
  \/ RequestDone
  \/ \E w \in Workers : TakeJob(w)
  \/ \E w \in Workers : SettleJob(w)
  \/ \E j \in JobIds : PromoteDelayed(j)
  \/ \E w \in Workers : LoopStart(w)
  \/ \E w \in Workers, a \in BOOLEAN : LoopConnect(w, a)
  \/ \E w \in Workers, a, b, c \in BOOLEAN, s \in StopReasons,
          u \in ToolUses : LoopTurn(w, a, s, u, b, c)
  \/ \E w \in Workers : LoopTools(w)
  \/ \E w \in Workers, a \in BOOLEAN : LoopLimit(w, a)
  \/ \E w \in Workers, a \in BOOLEAN : LoopError(w, a)
  \/ \E w \in Workers : LoopFinish(w)
  \/ \E w \in Workers, a \in BOOLEAN : LoopWorkerCatch(w, a)
  \/ \E o \in OrgIds : DisconnectCheck(o)
  \/ DisconnectDeleteLogs
  \/ DisconnectDeleteJobs
  \/ DisconnectDeleteOrg

SpecLoop == Init /\ [][NextLoop]_vars

\* ---- the worker pool: two messages of one thread have been turned into
\* two queued jobs of the same org before a worker slot was free.
InitPool ==
  /\ orgs = [o \in OrgIds |-> IF o = "sbxOrg" THEN "valid" ELSE "gone"]
  /\ jobs = [j \in JobIds |->
               IF j <= 2
               THEN NewJob("sbxOrg", 1, "u1", EventContent(j).msg, j, 0,
                           "event")
               ELSE NoJob]
  /\ logs = [j \in JobIds |-> 0]
  /\ artifacts = [j \in JobIds |-> 0]
  /\ nextId = 3
  /\ queue = QueueAdd(QueueAdd({}, 1, "sbxOrg", 1), 2, "sbxOrg", 1)
  /\ processedEvents = {1, 2}
  /\ clears = 0
  /\ pending = {}
  /\ pickers = {}
  /\ workers = [w \in Slots |-> IdleWorker]
  /\ disc = IdleDisc
  /\ resp = NoResp
  /\ call = NoCall
  /\ result = NoResult
  /\ remote = <<>>
  /\ offered = {}
  /\ sent = <<>>
  /\ cache = [k \in CacheKeys |-> NoEntry]
  /\ now = 0
  /\ ticks = 0

\* The model asks for tools in at most MaxToolTurns turns of a run.
PoolStops(w) ==
  IF workers[w].turn < MaxToolTurns THEN StopReasons
  ELSE StopReasons \ {"tool_use"}

NextPool ==
  \/ \E w \in Slots : TakeJob(w)
  \/ \E w \in Slots : SettleJob(w)
  \/ \E w \in Slots : LoopStart(w)
  \/ \E w \in Slots, a \in BOOLEAN : LoopConnect(w, a)
  \/ \E w \in Slots, a, b, c \in BOOLEAN, u \in ToolUses :
       \E s \in PoolStops(w) : LoopTurn(w, a, s, u, b, c)
  \/ \E w \in Slots : LoopTools(w)
  \/ \E w \in Slots, a \in BOOLEAN : LoopLimit(w, a)
  \/ \E w \in Slots, a \in BOOLEAN : LoopError(w, a)
  \/ \E w \in Slots : LoopFinish(w)

SpecPool == InitPool /\ [][NextPool]_vars

\* A step of runAgentLoop in worker slot w.
LoopRun(w) ==
  \/ \E a \in BOOLEAN : LoopConnect(w, a)
  \/ \E a, b, c \in BOOLEAN, s \in StopReasons, u \in ToolUses :
       LoopTurn(w, a, s, u, b, c)
  \/ LoopTools(w)
  \/ \E a \in BOOLEAN : LoopLimit(w, a)
  \/ \E a \in BOOLEAN : LoopError(w, a)

\* Every response is sent in the end, and every await of a run settles.
SpecLoopFair ==
  /\ SpecLoop
  /\ WF_vars(RequestDone)
  /\ \A w \in Workers : SF_vars(LoopRun(w))

\* ---- the two cache tiers of one sandbox org, services/orgContext and
\* services/componentCache, under the tools that read and write them.
\* Variant: an entry never expires.
getCached_NoExpiry(rows, key, t) == rows[key] # NoEntry

\* getCached: TRUE when the row exists and Date.now() is not greater than
\* fetched_at + ttl_seconds * 1000.
getCached(rows, key, t) ==
  /\ rows[key] # NoEntry
  /\ ~(t > rows[key].fetchedAt + rows[key].ttl * 1000)

\* setCache: upsert with fetched_at = new Date() and the ttl of the tier.
setCache(rows, key, t, ttlSeconds) ==
  [rows EXCEPT ![key] = [fetchedAt |-> t, ttl |-> ttlSeconds]]

\* invalidateComponent: delete the row of the key.
invalidateComponent(rows, key) == [rows EXCEPT ![key] = NoEntry]

\* orgContext.invalidateCache: delete the row of the inventory key.
invalidateCache(rows, key) == [rows EXCEPT ![key] = NoEntry]

CacheTools ==
  {"list_apex_classes", "get_apex_class_body", "get_apex_trigger_body",
   "create_apex_class", "update_apex_class"}

ClassTools ==
  {"get_apex_class_body", "create_apex_class", "update_apex_class"}

TriggerTools ==
  {"get_apex_trigger_body", "create_apex_trigger", "update_apex_trigger"}

\* The cache key a tool reads and writes; the component is named A.
KeyOf(name) ==
  IF name = "list_apex_classes" THEN "apex_classes"
  ELSE IF name \in ClassTools THEN "apex_class:A"
  ELSE "apex_trigger:A"

\* The ttl the reader of the key passes to setCache.
TtlOf(key) ==
  IF key = "apex_classes" THEN TTL_apex_classes
  ELSE COMPONENT_TTL

\* The rows after a handler has run: the row written by setCache, then the
\* rows deleted after a successful write (a name that fails validateName
\* never has a row).
CacheAfter(rows, c, r, t) ==
  LET key  == KeyOf(c.name)
      set  == IF \E i \in DOMAIN r.ops : r.ops[i] = "setCache"
              THEN setCache(rows, key, t, TtlOf(key)) ELSE rows
      comp == IF r.invalidated /\ c.nameOk
              THEN invalidateComponent(set, key) ELSE set
  IN IF r.invalidated /\ c.name \in ClassTools
     THEN invalidateCache(comp, "apex_classes") ELSE comp

\* One more operation on the caches is about to happen.
InitCache ==
  /\ InitLedger
  /\ orgs = [o \in OrgIds |-> IF o = "devOrg" THEN "gone" ELSE "valid"]
  /\ call = NoCall
  /\ result = NoResult
  /\ remote = <<>>
  /\ offered = {}
  /\ sent = <<>>
  /\ cache = [k \in CacheKeys |-> NoEntry]
  /\ now = 0
  /\ ticks = 0

\* Time passes: a millisecond, or one of the ttls.
Steps == {1, COMPONENT_TTL * 1000, TTL_apex_classes * 1000}

Tick(d) ==
  /\ ticks < MaxTicks
  /\ now' = now + d
  /\ ticks' = ticks + 1
  /\ UNCHANGED <<call, result, remote, offered, sent, cache, ledgerVars>>

\* executeTool for a tool that goes through a cache, in a sandbox org with
\* a componentCache; cached is what getCached finds at this moment. The
\* inputs a tool does not look at are held at TRUE.
CallCached(name, nameOk, found, remoteOk, saveOk) ==
  LET key == KeyOf(name)
      c   == [name |-> name, orgType |-> "sandbox", cache |-> TRUE,
              soql |-> <<Tok("SELECT"), Tok("word")>>,
              nameOk |-> nameOk,
              cached |-> nameOk /\ getCached(cache, key, now),
              found |-> found, remoteOk |-> remoteOk, saveOk |-> saveOk]
      r   == executeTool(c)
  IN
  /\ nameOk \/ name \in ClassTools \cup TriggerTools
  /\ found \/ (nameOk /\ remoteOk /\ name \in ClassTools \cup TriggerTools
                 /\ name \notin {"create_apex_class", "create_apex_trigger"})
  /\ saveOk \/ (nameOk /\ found /\ remoteOk /\ name \in WriteTools)
  /\ remoteOk \/ nameOk
  /\ call' = c
  /\ result' = [kind |-> r.kind, isError |-> r.isError,
                content |-> r.content, invalidated |-> r.invalidated,
                ops |-> r.ops]
  /\ remote' = RemoteOps(r.ops)
  /\ cache' = CacheAfter(cache, c, r, now)
  /\ UNCHANGED <<offered, sent, now, ticks, ledgerVars>>

NextCache ==
  \/ \E d \in Steps : Tick(d)
  \/ \E name \in CacheTools, a, b, c, d \in BOOLEAN :
       CallCached(name, a, b, c, d)

SpecCache == InitCache /\ [][NextCache]_vars

\* ---- two jobs of one sandbox org run tools on the Apex class A at the
\* same time: get_apex_class_body and update_apex_class, one await per step.
\* remote holds the successful writes to the class, so its length is the
\* version of the body in the org; a cache row carries the body it was
\* filled with.
Body == Len(remote)

ToolRun(tool, pc, held) == [pc |-> pc, tool |-> tool, held |-> held]

\* setCache of the component tier with its data.
setCacheData(rows, key, t, data) ==
  [rows EXCEPT ![key] =
     [fetchedAt |-> t, ttl |-> COMPONENT_TTL, data |-> data]]

\* executeTool starts a handler: validateName passes for the name A.
ToolStart(w, tool) ==
  /\ workers[w].pc = "idle"
  /\ tool = "update_apex_class" => Body < MaxUpdates
  /\ workers' = [workers EXCEPT ![w] = ToolRun(tool, "getCached", 0)]
  /\ UNCHANGED <<orgs, jobs, logs, artifacts, nextId, queue, processedEvents,
                 clears, pending, pickers, disc, resp, toolVars>>

\* getApexClassBody: await getCached; a hit returns the row's data.
ReadCached(w) ==
  LET ws  == workers[w]
      key == KeyOf(ws.tool)
  IN
  /\ ws.pc = "getCached"
  /\ workers' = [workers EXCEPT ![w] =
       IF getCached(cache, key, now)
       THEN ToolRun(ws.tool, IF ws.tool = "update_apex_class"
                             THEN "update" ELSE "done", cache[key].data)
       ELSE ToolRun(ws.tool, "toolingQuery", 0)]
  /\ UNCHANGED <<orgs, jobs, logs, artifacts, nextId, queue, processedEvents,
                 clears, pending, pickers, disc, resp, toolVars>>

\* getApexClassBody: await conn.tooling.query gives the body of this moment.
ReadQuery(w) ==
  LET ws == workers[w] IN
  /\ ws.pc = "toolingQuery"
  /\ workers' = [workers EXCEPT ![w] = ToolRun(ws.tool, "setCache", Body)]
  /\ UNCHANGED <<orgs, jobs, logs, artifacts, nextId, queue, processedEvents,
                 clears, pending, pickers, disc, resp, toolVars>>

\* getApexClassBody: await setCache(cacheKey, data), then return data.
ReadStore(w) ==
  LET ws == workers[w] IN
  /\ ws.pc = "setCache"
  /\ cache' = setCacheData(cache, KeyOf(ws.tool), now, ws.held)
  /\ workers' = [workers EXCEPT ![w] =
       ToolRun(ws.tool, IF ws.tool = "update_apex_class"
                        THEN "update" ELSE "done", ws.held)]
  /\ UNCHANGED <<orgs, jobs, logs, artifacts, nextId, queue, processedEvents,
                 clears, pending, pickers, disc, resp, call, result, remote,
                 offered, sent, now, ticks>>

\* executeUpdateApexClass: await conn.tooling.update; a refused save
\* returns the compile errors and leaves the caches alone.
WriteUpdate(w, saveOk) ==
  LET ws == workers[w] IN
  /\ ws.pc = "update"
  /\ IF saveOk
     THEN /\ remote' = Append(remote, "update")
          /\ workers' = [workers EXCEPT ![w] =
               ToolRun(ws.tool, "invalidate", ws.held)]
     ELSE /\ workers' = [workers EXCEPT ![w] =
               ToolRun(ws.tool, "done", ws.held)]
          /\ UNCHANGED remote
  /\ UNCHANGED <<orgs, jobs, logs, artifacts, nextId, queue, processedEvents,
                 clears, pending, pickers, disc, resp, call, result,
                 offered, sent, cache, now, ticks>>

\* executeUpdateApexClass: await Promise.all of the two invalidations.
WriteInvalidate(w) ==
  LET ws == workers[w] IN
  /\ ws.pc = "invalidate"
  /\ cache' = invalidateCache(
                invalidateComponent(cache, KeyOf(ws.tool)), "apex_classes")
  /\ workers' = [workers EXCEPT ![w] = ToolRun(ws.tool, "done", ws.held)]
  /\ UNCHANGED <<orgs, jobs, logs, artifacts, nextId, queue, processedEvents,
                 clears, pending, pickers, disc, resp, call, result, remote,
                 offered, sent, now, ticks>>

\* executeTool returns the handler's result to the loop.
ToolEnd(w) ==
  /\ workers[w].pc = "done"
  /\ workers' = [workers EXCEPT ![w] = IdleWorker]
  /\ UNCHANGED <<orgs, jobs, logs, artifacts, nextId, queue, processedEvents,
                 clears, pending, pickers, disc, resp, toolVars>>

NextRace ==
  \/ \E w \in Slots, tool \in {"get_apex_class_body", "update_apex_class"} :
       ToolStart(w, tool)
  \/ \E w \in Slots : ReadCached(w)
  \/ \E w \in Slots : ReadQuery(w)
  \/ \E w \in Slots : ReadStore(w)
  \/ \E w \in Slots, a \in BOOLEAN : WriteUpdate(w, a)
  \/ \E w \in Slots : WriteInvalidate(w)
  \/ \E w \in Slots : ToolEnd(w)

SpecRace == InitCache /\ [][NextRace]_vars

\* ---- the query tool alone, over SOQL texts of every shape: white space
\* or none at either end, SELECT in either case or DELETE, a word, then
\* nothing, a literal holding the word limit, or a subquery's LIMIT n, then
\* nothing or the query's own LIMIT n in either case.
LimitValues == {1, DefaultLimit, MaxLimit, MaxLimit + 1}

Pads == {<<>>, <<Tok("sp")>>}

Heads == {Tok("SELECT"), Tok("select"), Tok("DELETE")}

Middles ==
  {<<>>, <<Tok("litLimit")>>}
    \cup {<<Tok("LIMIT"), Num(n), Tok("word")>> : n \in LimitValues}

Tails ==
  {<<>>} \cup {<<Tok(l), Num(n)>> : l \in {"LIMIT", "limit"},
                                    n \in LimitValues}

Queries ==
  {a \o <<h, Tok("word")>> \o m \o t \o b :
     a \in Pads, h \in Heads, m \in Middles, t \in Tails, b \in Pads}

QueryCalls ==
  [name : {"query_salesforce"}, orgType : OrgTypes, cache : BOOLEAN,
   soql : Queries, nameOk : {TRUE}, cached : {FALSE}, found : {TRUE},
   remoteOk : BOOLEAN, saveOk : {TRUE}]

InitQuery ==
  /\ InitLedger
  /\ call \in QueryCalls
  /\ result = NoResult
  /\ remote = <<>>
  /\ offered = {}
  /\ sent = <<>>
  /\ cache = [k \in CacheKeys |-> NoEntry]
  /\ now = 0
  /\ ticks = 0

NextQuery == ExecuteTool

SpecQuery == InitQuery /\ [][NextQuery]_vars

\* One call of executeTool with each combination of arguments.
NextTool ==
  \/ ExecuteTool
  \/ GetToolsForOrg

SpecTool == InitTool /\ [][NextTool]_vars

\* ================================================================ claims
AllowedTransitions ==
  { <<"queued", "running">>, <<"running", "completed">>,
    <<"running", "failed">>, <<"running", "waiting_for_input">>,
    <<"waiting_for_input", "running">>, <<"failed", "queued">> }

\* C2: every change of a job's status is one of queued->running,
\* running->completed, running->failed, running->waiting_for_input,
\* waiting_for_input->running, failed->queued.
C2_StatusTransitions ==
  [][\A j \in JobIds :
       (Exists(j) /\ Exists(j)' /\ jobs'[j].status # jobs[j].status)
         => <<jobs[j].status, jobs'[j].status>> \in AllowedTransitions]_vars

\* C3: no job row is deleted while its status is queued or running.
C3_NoActiveJobDeleted ==
  [][\A j \in JobIds :
       (Exists(j) /\ ~Exists(j)')
         => jobs[j].status \notin {"queued", "running"}]_vars

IsResp(r, op, code) == r # NoResp /\ r.op = op /\ r.code = code

C5_Retry ==
  [][\A j \in JobIds :
       (resp' # NoResp /\ resp'.op = "retry" /\ resp'.target = j) =>
         \/ /\ resp'.code = 200
            /\ Exists(j) /\ jobs[j].status = "failed"
            /\ jobs' = [jobs EXCEPT ![j] =
                          [jobs[j] EXCEPT !.status = "queued",
                                          !.completedAt = FALSE,
                                          !.durationMs = FALSE,
                                          !.pendingQuestion = FALSE]]
            /\ logs' = [logs EXCEPT ![j] = logs[j] + 1]
         \/ /\ resp'.code = 409
            /\ Exists(j) /\ jobs[j].status # "failed"
            /\ UNCHANGED <<jobs, logs>>
         \/ /\ resp'.code = 404
            /\ ~Exists(j)
            /\ UNCHANGED <<jobs, logs>>]_vars

C5_Witness ==
  /\ IsResp(resp, "retry", 200)
  /\ jobs[resp.target].status = "queued"
  /\ \E e \in queue : e.jobId = resp.target /\ e.attemptsMade > 0

\* Number of times the handler has been started for an entry.
Executions(e) == e.attemptsMade + (IF e.state = "active" THEN 1 ELSE 0)

\* C6: an entry is executed at most 3 times; each failing attempt leaves the
\* job failed; an entry failed for good is never touched again, and from then
\* on the status of its job changes only by an explicit retry or by the
\* removal of the row.
C6_AttemptCap ==
  /\ [](\A e \in queue :
          /\ Executions(e) <= Attempts
          /\ e.state = "failed" => e.attemptsMade = Attempts)
  /\ [][/\ \A e \in queue : e.state = "failed" => e \in queue'
        /\ \A w \in Workers :
             (workers[w].pc = "catch" /\ workers'[w].pc = "threw"
                /\ Exists(workers[w].entry))
               => jobs'[workers[w].entry].status = "failed"
        /\ \A e \in queue :
             (e.state = "failed" /\ Exists(e.jobId) /\ Exists(e.jobId)'
                /\ jobs'[e.jobId].status # jobs[e.jobId].status)
               => IsResp(resp', "retry", 200)]_vars

C6_Witness ==
  \E e \in queue :
    /\ e.state = "failed"
    /\ Exists(e.jobId)
    /\ jobs[e.jobId].status = "failed"

\* The entries whose handler has run at least once.
Executed == {e \in queue : Executions(e) > 0}

EventJobs(ev) ==
  {j \in JobIds : Exists(j) /\ jobs[j].via = "event" /\ jobs[j].event = ev}

C8_DuplicateSuppressed ==
  /\ [][\A ev \in EventIds :
          (resp' # NoResp /\ resp'.op = "events" /\ resp'.target = ev
             /\ ev \in processedEvents)
            => /\ resp'.code = 200
               /\ UNCHANGED <<jobs, logs, nextId, queue, pending, pickers,
                              processedEvents>>]_vars
  /\ [](\A ev \in EventIds :
          \A j1, j2 \in EventJobs(ev) :
            jobs[j1].win = jobs[j2].win => j1 = j2)

C8_Witness ==
  /\ IsResp(resp, "events", 200)
  /\ pending = {}
  /\ \E j \in EventJobs(resp.target) : jobs[j].win = clears

C10_UnexpectedStopNotCompleted ==
  [][\A w \in Workers :
       (/\ workers[w].stop = "other"
        /\ workers[w].pc = "limit"
        /\ Exists(workers[w].jobId)
        /\ jobs[workers[w].jobId].status # "completed")
         => jobs'[workers[w].jobId].status # "completed"]_vars

\* C1: a write tool called for a production org returns an error result and
\* issues no remote create or update, whether or not the tool is among the
\* tools offered for the org type and whether or not a componentCache is
\* passed.
C1_ProductionWriteBlocked ==
  (/\ call # NoCall
   /\ result # NoResult
   /\ call.name \in WriteTools
   /\ call.orgType = "production")
    => /\ result.isError
       /\ \A i \in DOMAIN remote : remote[i] \notin {"create", "update"}
       /\ ~result.invalidated

C1_Witness ==
  /\ call # NoCall
  /\ call.name = "update_apex_class"
  /\ call.orgType = "production"
  /\ call.name \notin getToolsForOrg(call.orgType)
  /\ call.cache /\ call.nameOk /\ call.found /\ call.remoteOk /\ call.saveOk
  /\ result.content = "writeBlocked"

\* C11: no exception leaves runAgentLoop: from every point inside it the
\* worker's next position is again inside it or its normal return, never the
\* worker's catch; the loop's own catch is passed once, sends at most the
\* error reply, returns whether or not that reply was accepted, and leaves
\* every job's status as it was; and no step inside runAgentLoop sets a
\* job's status to failed.
InLoop == {"connect", "turn", "tools", "limit", "loopCatch"}

C11_LoopAbsorbsExceptions ==
  [][\A w \in Workers :
       LET ws == workers[w]
           wn == workers'[w]
       IN
       (ws.pc \in InLoop /\ wn # ws)
         => /\ wn.pc \in InLoop \cup {"loopReturned"}
            /\ ws.pc = "loopCatch"
                 => /\ wn.pc = "loopReturned"
                    /\ wn.posted \subseteq ws.posted \cup {"loopError"}
                    /\ jobs' = jobs
            /\ \A j \in JobIds :
                 (Exists(j)' /\ jobs'[j].status = "failed")
                   => (Exists(j) /\ jobs[j].status = "failed")]_vars

\* The model call failed on the first turn, the error reply was refused, and
\* runAgentLoop has returned with the job still running.
C11_Witness ==
  \E w \in Workers :
    /\ workers[w].pc = "loopReturned"
    /\ workers[w].turn = 1
    /\ workers[w].stop = "none"
    /\ workers[w].posted = {}
    /\ Exists(workers[w].jobId)
    /\ jobs[workers[w].jobId].status = "running"

\* C12: when a worker's handling of a job has ended, by return or by throw,
\* the run has called postThreadReply at least once.
C12_ReplyAttempted ==
  \A w \in Workers :
    workers[w].pc \in {"returned", "threw"} => workers[w].tried

\* C13: every call of executeTool ends by returning a result with a text
\* and an error flag, never by an exception; when the handler throws, the
\* result carries the error flag and the handler's message; a name that is
\* not a tool gives the "unknown tool" error result and no remote call.
C13_ExecuteToolNeverRaises ==
  result # NoResult
    => /\ result.kind = "return"
       /\ result.isError \in BOOLEAN
       /\ result.content # "none"
       /\ (/\ ~(toolModes(call.name) = "development" /\ ~call.cache)
           /\ Handler(call).kind = "throw")
            => /\ result.isError
               /\ result.content = Handler(call).content
       /\ call.name \notin ToolNames
            => /\ result.isError
               /\ result.content = "unknownTool"
               /\ remote = <<>>

\* describe_object was called, the remote call failed, and executeTool has
\* returned the error as a result.
C13_Witness ==
  /\ call # NoCall
  /\ call.name = "describe_object"
  /\ ~call.remoteOk
  /\ Handler(call).kind = "throw"
  /\ result.kind = "return"
  /\ result.isError
  /\ result.content = "remoteError"
  /\ remote = <<"read">>

\* C14: for an org type other than production getToolsForOrg returns the
\* whole catalog; for production it returns exactly the tools of mode "all",
\* none of which is a write tool or a development tool.
C14_ToolsForOrg ==
  offered # {}
    => /\ call.orgType # "production" => offered = ToolNames
       /\ call.orgType = "production"
            => /\ offered = {n \in ToolNames : toolModes(n) = "all"}
               /\ offered \cap WriteTools = {}
               /\ \A n \in offered : toolModes(n) # "development"

\* The list for a production org has been computed: the six read tools.
C14_Witness ==
  /\ call # NoCall
  /\ call.orgType = "production"
  /\ offered = AllTools
  /\ "list_lwc_bundles" \in offered

\* C15: the query tool called with a text that, trimmed, does not begin with
\* SELECT in either case returns an error result and passes nothing to the
\* remote connection.
C15_NonSelectRejected ==
  (/\ result # NoResult
   /\ call.name = "query_salesforce"
   /\ LET t == Trim(call.soql)
      IN t = <<>> \/ Head(t).k \notin {"SELECT", "select"})
    => /\ result.kind = "return"
       /\ result.isError
       /\ result.content = "onlySelect"
       /\ remote = <<>>
       /\ sent = <<>>

\* A DELETE text with leading white space has been rejected, with a remote
\* connection that would have answered.
C15_Witness ==
  /\ call # NoCall
  /\ call.name = "query_salesforce"
  /\ call.remoteOk
  /\ Len(call.soql) > 1
  /\ call.soql[1] = Tok("sp")
  /\ call.soql[2] = Tok("DELETE")
  /\ result.content = "onlySelect"

\* The text has a LIMIT clause: the keyword outside a literal.
HasLimitClause(q) == \E i \in DOMAIN q : q[i].k \in {"LIMIT", "limit"}

\* C16: when the query tool passes a text to the remote connection and the
\* text it was given has no LIMIT clause, the text passed is the given text,
\* trimmed, followed by LIMIT 200.
C16_DefaultLimitAppended ==
  (sent # <<>> /\ ~HasLimitClause(call.soql))
    => sent = Trim(call.soql) \o <<Tok("LIMIT"), Num(DefaultLimit)>>

\* C17: in the text the query tool passes to the remote connection every
\* LIMIT n of the given text stands with n unchanged when n is at most 2000
\* and with 2000 when n is greater; no LIMIT of the passed text is above
\* 2000.
C17_LimitClamped ==
  sent # <<>>
    => LET q == Trim(call.soql) IN
       /\ \A i \in LimitMatches(q) :
            /\ i + 1 \in DOMAIN sent
            /\ sent[i + 1] = Num(IF q[i + 1].n > MaxLimit
                                 THEN MaxLimit ELSE q[i + 1].n)
       /\ \A i \in LimitMatches(sent) : sent[i + 1].n <= MaxLimit

\* C19: a write tool called for an org that is not production with a name
\* that fails validateName returns an error result and issues no remote
\* call; with a componentCache the error is the one of validateName.
C19_InvalidNameRejected ==
  (/\ call # NoCall
   /\ result # NoResult
   /\ call.name \in WriteTools
   /\ call.orgType # "production"
   /\ ~call.nameOk)
    => /\ result.isError
       /\ remote = <<>>
       /\ call.cache => result.content = "invalidName"

\* C18: a read through either cache tier that finds a row written at
\* fetchedAt with ttl seconds returns the cached payload without a remote
\* call and leaves the rows alone when now is at most fetchedAt + ttl; when
\* now is later it calls the remote, and when that fetch succeeds the row is
\* rewritten with the present time as its fetch time.
CacheReadTools ==
  {"list_apex_classes", "get_apex_class_body", "get_apex_trigger_body"}

C21_ClickLikeDirect ==
  [][(nextId' = nextId + 1 /\ jobs'[nextId].via = "click") =>
       LET j == nextId
           n == jobs'[j]
           c == EventContent(n.event)
       IN /\ n = [NewJob(n.orgId, c.thread, c.user, c.msg, n.event, n.win,
                         "event") EXCEPT !.via = "click"]
          /\ queue' = queue \cup
               {[jobId |-> j, orgId |-> n.orgId, thread |-> c.thread,
                 state |-> "waiting", attemptsMade |-> 0, delay |-> 0]}
          /\ Cardinality({e \in queue' : e.jobId = j}) = 1
          /\ \A k \in JobIds \ {j} : jobs'[k] = jobs[k]]_vars

C21_Witness ==
  \E j \in JobIds :
    /\ Exists(j)
    /\ jobs[j].via = "click"
    /\ jobs[j].userId = "u2"
    /\ jobs[j].description # PlainMsg
    /\ \E e \in queue : e.jobId = j /\ e.state = "waiting"

\* ------------------------------------------------------------------ C22
\* C22: when handleEventAsync has handled a message while at least one org
\* is connected, it has either created one job (one new record, one new
\* queue entry, no chooser) or posted one chooser whose buttons are exactly
\* the connected orgs (no job, no queue entry); never both, never neither.
C22_OneOutcome ==
  [][\A p \in pending :
       (/\ pending' = pending \ {p}
        /\ p.data = NoClick
        /\ EventContent(p.event).kind = "message"
        /\ ValidOrgs # {})
       => LET created == {j \in JobIds : ~Exists(j) /\ jobs'[j] # NoJob}
              posted  == pickers' \ pickers
          IN \/ /\ Cardinality(created) = 1
                /\ \A j \in created : jobs'[j].orgId \in OrgIds
                /\ Cardinality(queue' \ queue) = 1
                /\ posted = {}
             \/ /\ created = {}
                /\ queue' = queue
                /\ Cardinality(posted) = 1
                /\ \A q \in posted : q.orgs = ValidOrgs]_vars

C22_Witness ==
  /\ pending = {}
  /\ \E q \in pickers : q.orgs = OrgIds
  /\ \A j \in JobIds : Exists(j) => jobs[j].via # "event" \/ jobs[j].event = 0

\* ------------------------------------------------------------------ C23
\* C23: the step that accepts an event callback or a chooser click sends
\* the 200 response and starts the continuation without creating a job or
\* a queue entry; jobs and queue entries are created only by a
\* continuation, after the response is over; and a continuation whose
\* handleOrgMessage is rejected changes neither the response nor the
\* ledger.
C23_AckBeforeWork ==
  /\ [][pending' \ pending # {}
          => /\ \/ IsResp(resp', "events", 200)
                \/ IsResp(resp', "interactions", 200)
             /\ jobs' = jobs /\ queue' = queue /\ nextId' = nextId]_vars
  /\ [][(\/ \E j \in JobIds : ~Exists(j) /\ jobs'[j] # NoJob
         \/ \E e \in queue' : \A f \in queue : f.jobId # e.jobId)
          => \E p \in pending :
               pending' = pending \ {p} /\ resp = NoResp /\ resp' = NoResp]_vars
  /\ [][\A p \in pending :
          (/\ pending' = pending \ {p}
           /\ p.data # NoClick
           /\ orgs[p.data.orgId] = "gone")
          => resp' = resp /\ jobs' = jobs /\ queue' = queue]_vars

C23_Witness ==
  /\ IsResp(resp, "interactions", 200)
  /\ \E p \in pending : p.data # NoClick /\ orgs[p.data.orgId] = "gone"
  /\ \A j \in JobIds : ~Exists(j)

\* ------------------------------------------------------------------ C24
\* C24: turnCount, the number of calls of the reasoning model in the current
\* run of runAgentLoop, never exceeds MAX_TURNS, and a run that has started
\* leaves runAgentLoop (by return), whatever the model and the tools answer.
C24_BoundedAndTerminates ==
  /\ [](\A w \in Workers : workers[w].turn <= MAX_TURNS)
  /\ \A w \in Workers :
       (workers[w].pc \in InLoop) ~> (workers[w].pc \notin InLoop)

C24_Witness ==
  \E w \in Workers :
    /\ workers[w].pc = "loopReturned"
    /\ workers[w].turn = MAX_TURNS
    /\ workers[w].stop = "tool_use"

\* ------------------------------------------------------------------ C25
\* C25: the step that ends a tool-invocation turn saves the conversation
\* with, as its last turn, one tool-result turn holding one result per
\* requested tool call, in request order and under the call's id; and
\* whenever a run is about to call the model again after such a turn, the
\* conversation saved in its job row is the run's own conversation.
C25_TranscriptPersisted ==
  /\ [][\A w \in Slots :
          LET ws == workers[w]
              wn == workers'[w]
          IN (ws.pc = "tools" /\ wn.pc \in {"turn", "limit"})
               => /\ jobs'[ws.jobId].conv = wn.hist
                  /\ jobs'[ws.jobId].convBy = ws.entry
                  /\ jobs'[ws.jobId].convLast =
                       [i \in 1..Len(ws.calls) |->
                          [tool_use_id |-> ws.calls[i]]]]_vars
  /\ [](\A w \in Slots :
          LET ws == workers[w]
          IN (ws.pc = "turn" /\ ws.stop = "tool_use" /\ Exists(ws.jobId))
               => /\ jobs[ws.jobId].conv = ws.hist
                  /\ jobs[ws.jobId].convBy = ws.entry)

\* ------------------------------------------------------------------ C26
\* C26: no two worker slots are executing tool calls for the same job row
\* at the same time.
C26_NoOverlap ==
  \A w1, w2 \in Slots :
    (/\ w1 # w2
     /\ workers[w1].pc = "tools"
     /\ workers[w2].pc = "tools")
    => workers[w1].jobId # workers[w2].jobId

\* ------------------------------------------------------------------ C27
\* C27: with two or more orgs connected, a message in a thread that already
\* has a job always becomes one job for the org of the thread's most
\* recently created job, whatever names and keywords the message holds; no
\* chooser is posted.
C27_ThreadAffinity ==
  [][\A p \in pending :
       LET c    == EventContent(p.event)
           prev == ThreadJobs(c.thread)
       IN (/\ pending' = pending \ {p}
           /\ p.data = NoClick
           /\ c.kind = "message"
           /\ Cardinality(ValidOrgs) >= 2
           /\ prev # {})
          => LET last == CHOOSE j \in prev : \A k \in prev : k <= j
             IN /\ nextId' = nextId + 1
                /\ jobs'[nextId] # NoJob
                /\ jobs'[nextId].orgId = jobs[last].orgId
                /\ jobs'[nextId].description = c.msg
                /\ pickers' = pickers]_vars

\* The thread's jobs were for prodOrg, then sbxOrg; a message that names
\* prodOrg and holds a read keyword has become a job for sbxOrg.
C27_Witness ==
  /\ jobs[1] # NoJob /\ jobs[1].orgId = "prodOrg"
  /\ jobs[2] # NoJob /\ jobs[2].orgId = "sbxOrg"
  /\ jobs[3] # NoJob /\ jobs[3].orgId = "sbxOrg"
  /\ jobs[3].via = "event"
  /\ jobs[3].description = [names |-> {"prodOrg"}, dev |-> FALSE,
                            prod |-> TRUE]

\* ------------------------------------------------------------------ C28
\* C28: in a thread without jobs, a message whose text matches the names of
\* two or more connected orgs gets the chooser and no job, also when its
\* keywords would have selected a single org.
C28_ManyMatchesChooser ==
  [][\A p \in pending :
       LET c == EventContent(p.event)
       IN (/\ pending' = pending \ {p}
           /\ p.data = NoClick
           /\ c.kind = "message"
           /\ ThreadJobs(c.thread) = {}
           /\ Cardinality(c.msg.names \cap ValidOrgs) >= 2)
          => /\ jobs' = jobs
             /\ queue' = queue
             /\ \E q \in pickers' \ pickers :
                  q.orgs = ValidOrgs /\ q.messageText = c.msg]_vars

\* prodOrg and sbxOrg are the connected orgs, the message names both and
\* holds a development keyword; the chooser is up and no job exists.
C28_Witness ==
  /\ pending = {}
  /\ ValidOrgs = {"prodOrg", "sbxOrg"}
  /\ \A j \in JobIds : ~Exists(j)
  /\ \E q \in pickers :
       /\ q.messageText.names = {"prodOrg", "sbxOrg"}
       /\ q.messageText.dev
       /\ ~q.messageText.prod

\* ------------------------------------------------------------------ C29
\* C29: in a thread without jobs, a message that matches no org name and
\* holds a development keyword becomes a job for the only connected
\* sandbox or developer org, or else gets the chooser; it never becomes a
\* job for a production org.
C29_DevNeverProd ==
  [][\A p \in pending :
       LET c == EventContent(p.event)
           devOrgs == {o \in ValidOrgs :
                         OrgType(o) \in {"sandbox", "developer"}}
       IN (/\ pending' = pending \ {p}
           /\ p.data = NoClick
           /\ c.kind = "message"
           /\ Cardinality(ValidOrgs) >= 2
           /\ ThreadJobs(c.thread) = {}
           /\ c.msg.names \cap ValidOrgs = {}
           /\ c.msg.dev)
          => IF Cardinality(devOrgs) = 1
             THEN /\ jobs'[nextId] # NoJob
                  /\ jobs'[nextId].orgId \in devOrgs
             ELSE /\ jobs' = jobs
                  /\ pickers' # pickers]_vars

\* ------------------------------------------------------------------ C30
\* C30: a deep-read call (class body, trigger body, flow definition, LWC
\* source) with a name that fails the identifier pattern ends in an error
\* without any cache lookup, cache write or remote query; with a valid name
\* that is not cached and that the remote lookup does not find, it ends in
\* the not-found error and writes no cache entry.
DeepReadTools ==
  {"get_apex_class_body", "get_apex_trigger_body", "get_flow_definition",
   "get_lwc_source"}

C30_DeepReadValidation ==
  (result # NoResult /\ call.name \in DeepReadTools)
    => /\ ~call.nameOk
            => /\ result.isError
               /\ result.ops = <<>>
               /\ remote = <<>>
       /\ (call.cache /\ call.nameOk /\ ~call.cached /\ call.remoteOk
             /\ ~call.found)
            => /\ result.isError
               /\ result.content = "notFound"
               /\ result.ops = <<"getCached", "toolingQuery">>

C30_Witness ==
  /\ call.name = "get_lwc_source"
  /\ call.nameOk
  /\ result.isError
  /\ result.content = "notFound"
  /\ remote = <<"toolingQuery">>

\* C31: a reply that cannot be delivered does not change the outcome of the
\* run: when the reply of a natural completion, or the message of the turn
\* cap, fails to post, the job of the run still gets the whole transcript
\* and the status completed in that step.
C31_ReplyFailureKeepsOutcome ==
  [][\A w \in Workers :
       LET ws == workers[w]
           wn == workers'[w]
       IN (/\ ws.pc \in {"turn", "limit"}
           /\ ~ws.tried /\ wn.tried /\ wn.posted = ws.posted
           /\ Exists(ws.jobId))
          => /\ jobs'[ws.jobId].status = "completed"
             /\ jobs'[ws.jobId].conv = wn.hist
             /\ wn.pc = "loopReturned"]_vars

\* C32: when a worker's handling of a dequeued job has ended, by return or
\* by throw, the job of the queue entry is completed, failed or waiting for
\* input; it is not left running, also after an exception inside the loop.
C32_NeverLeftRunning ==
  \A w \in Workers :
    (workers[w].pc \in {"returned", "threw"} /\ Exists(workers[w].entry))
      => jobs[workers[w].entry].status
           \in {"completed", "failed", "waiting_for_input"}

\* C33: the job a run marks running and later completed is the job of the
\* dequeued payload: when a worker has finished the queue entry of job J
\* and its run had marked a job running, J is no longer queued, also when
\* the thread holds a newer job.
C33_PayloadJobHandled ==
  \A w \in Slots :
    (/\ workers[w].pc = "returned"
     /\ workers[w].jobId # 0
     /\ Exists(workers[w].entry))
    => /\ workers[w].jobId = workers[w].entry
       /\ jobs[workers[w].entry].status # "queued"

\* C34: after the retry of a failed job has been accepted, a worker
\* eventually starts the job's handler again (or the job has been deleted);
\* the job does not stay queued without ever being executed.
C34_RetryRunsAgain ==
  \A j \in JobIds :
    (resp = Response("retry", j, 200))
      ~> (\/ ~Exists(j)
          \/ \E w \in Workers :
               workers[w].entry = j /\ workers[w].pc = "start")

\* C35: in every interleaving of worker attempts, queue retries and
\* disconnects, a queue entry that waits for a retry or is being executed
\* refers to a job row that still exists.
C35_EntryHasJob ==
  \A e \in queue :
    e.state \in {"delayed", "active"} => Exists(e.jobId)

\* C36: when a deep read of a component by one job overlaps a successful
\* write to it by another job, then once every run has finished the
\* component cache does not hold a body older than the one in the org.
C36_NoStaleBody ==
  (\A w \in Slots : workers[w].pc = "idle")
    => (getCached(cache, "apex_class:A", now)
          => cache["apex_class:A"].data = Body)

\* C37: on every resolution path (single org, thread affinity, name match,
\* intent inference, chooser click) the org a job is created for is, at
\* that moment, a connected org of the account with a valid token.
C37_JobForValidOrg ==
  [][(nextId' = nextId + 1 /\ jobs'[nextId] # NoJob)
       => jobs'[nextId].orgId \in ValidOrgs]_vars

\* C38: a chooser leads to at most one job: however often and on whichever
\* of its buttons it is clicked, at most one job exists for the message the
\* chooser was posted for.
C38_OneJobPerChooser ==
  \A e \in ResolveEvents :
    Cardinality({j \in JobIds : /\ Exists(j)
                                /\ jobs[j].via = "click"
                                /\ jobs[j].event = e}) <= 1

\* C39: every tool offered to a production org can run without a component
\* cache: a call of executeTool with a null componentCache for a tool of
\* mode all never ends in an error caused by the missing cache.
C39_AllModeNeedsNoCache ==
  (/\ result # NoResult
   /\ call.name \in ToolNames
   /\ toolModes(call.name) = "all"
   /\ ~call.cache)
  => result.content # "nullCache"

====
